---- MODULE Spec2Model ----
(***************************************************************************)
(* Ray tracer core of maoz233/ray-tracing: ray/sphere intersection, the    *)
(* hittable list, the materials and the recursive colour integrator.       *)
(*                                                                         *)
(* Numbers.  The program computes in IEEE single precision.  Here a float  *)
(* is an integer count of 1/SCALE units (fixed point, three decimals):     *)
(* 1.0f is SCALE, 0.001f is 1.  Every product, quotient and square root is *)
(* rounded to the nearest unit, as each float operation rounds to the      *)
(* nearest representable value.  NaN and infinite operands are not         *)
(* represented: rays have a non-zero direction and spheres a non-zero      *)
(* radius, so no division by zero is evaluated.  INFINITY_F is a value     *)
(* above every parameter the bounded inputs can produce.                   *)
(***************************************************************************)
EXTENDS Integers, Sequences, FiniteSets, TLC

VARIABLES
  objects_,        \* HittableList::objects_ : sequence of spheres
  ray,             \* the ray being traced / queried
  t_min,           \* HittableList::Hit parameter
  t_max,           \* HittableList::Hit parameter
  closest_so_far,  \* HittableList::Hit local
  temp_record,     \* HittableList::Hit local
  hit_anything,    \* HittableList::Hit local
  idx,             \* position of the range-for over objects_ (1-based)
  record,          \* the caller's HitRecord (RayColor local / Hit out-parameter)
  pc,              \* position of the running call
  bounce,          \* RayColor parameter of the running frame
  bounce_limit_,   \* Scene::bounce_limit_ handed to the top-level RayColor
  attenuation,     \* RayColor local, written by Material::Scatter
  scattered,       \* RayColor local, written by Material::Scatter
  scatter_ok,      \* value returned by Material::Scatter in the running frame
  stack,           \* suspended RayColor frames, innermost first
  result,          \* value returned by the frame that returned last
  hits,            \* number of world.Hit queries of this top-level call
  scatters,        \* number of Material::Scatter calls of this top-level call
  loop,            \* the explicit loop run beside the recursion: its
                   \* accumulated attenuation and the colour it ends with
  width_,          \* Scene::width_
  height_,         \* Scene::height_
  samples_per_pixel_,  \* Scene::samples_per_pixel_
  gamma_,          \* Scene::gamma_
  fov_,            \* Scene::fov_ (degrees)
  aperture_,       \* Scene::aperture_
  is_playing_,     \* Scene::is_playing_
  image_data_,     \* Scene::image_data_: the pixel buffer, <<>> for nullptr
  pixel_i,         \* Render loop counter i
  pixel_j,         \* Render loop counter j
  generator,       \* number of draws made from the static engine of RandomFloat
  renders,         \* number of Render calls begun
  writes,          \* buffer indices written by the running Render, in order
  div_by_zero,     \* the running Render divided by zero
  first_data,      \* the buffer the first Render call produced
  first_start,     \* the engine state the first Render call began with
  last_start,      \* the engine state the latest Render call began with
  image_,          \* Scene::image_: [width, height] of the Image, <<>> for nullptr
  camera,          \* Render local camera
  return_to,       \* where the running Render call returns to in OnUIRender
  uploads,         \* the Image::SetData calls of the running Render, each with
                   \* the number of pixels written before it and the data
  undefined_cast,  \* what this build's float-to-uint32_t conversion yields
                   \* for a float outside the range of uint32_t
  pixel_color,     \* GetColor parameter color
  channels,        \* GetColor locals R, G, B
  packed,          \* value returned by GetColor, as bytes <<R, G, B, A>>
  in_flight_fences_,    \* Application::in_flight_fences_: TRUE for signaled
  submitted,       \* per frame slot: work is in the graphics queue that
                   \* signals the slot's fence when it completes
  current_frame_,  \* Application::current_frame_
  framebuffer_resized_,  \* Application::framebuffer_resized_
  draws,           \* number of DrawFrame calls made by Run
  completed,       \* number of DrawFrame calls that reached their last line
  swap_chains      \* number of RecreateSwapChain calls

vars == <<objects_, ray, t_min, t_max, closest_so_far, temp_record,
          hit_anything, idx, record, pc, bounce, bounce_limit_, attenuation,
          scattered, scatter_ok, stack, result, hits, scatters, loop, width_,
          height_, samples_per_pixel_, gamma_, fov_, aperture_, is_playing_,
          image_data_, pixel_i, pixel_j, generator, renders, writes,
          div_by_zero, first_data, first_start, last_start, image_, camera,
          return_to, uploads, undefined_cast, pixel_color, channels,
          packed, in_flight_fences_, submitted, current_frame_,
          framebuffer_resized_, draws, completed, swap_chains>>

hitVars == <<t_min, t_max, closest_so_far, temp_record, hit_anything, idx>>

traceVars == <<bounce, bounce_limit_, attenuation, scattered, scatter_ok,
               stack, result, hits, scatters, loop>>

colorVars == <<pixel_color, channels, packed>>

frameVars == <<in_flight_fences_, submitted, current_frame_,
               framebuffer_resized_, draws, completed, swap_chains>>

renderVars == <<width_, height_, samples_per_pixel_, gamma_, fov_, aperture_,
                is_playing_, image_data_, pixel_i, pixel_j, generator,
                renders, writes, div_by_zero, first_data, first_start,
                last_start, image_, camera, return_to, uploads,
                undefined_cast>>

---------------------------------------------------------------------------
(* Bounds of the model *)

MaxObjects == 2

MaxBounce == 3

---------------------------------------------------------------------------
(* float arithmetic in units of 1/SCALE *)

SCALE == 1000

INFINITY_F == 1000000000

T_MIN == 1

Abs(x) == IF x < 0 THEN -x ELSE x

\* a / b rounded to the nearest integer, halves upwards (a >= 0, b > 0)
RoundQuot(a, b) == (a \div b) + (IF 2 * (a % b) >= b THEN 1 ELSE 0)

\* x / y rounded to the nearest integer, halves away from zero (y # 0)
RoundDiv(x, y) ==
  IF (x < 0) = (y < 0) THEN RoundQuot(Abs(x), Abs(y))
  ELSE -RoundQuot(Abs(x), Abs(y))

FMul(x, y) == RoundDiv(x * y, SCALE)

FDiv(x, y) == RoundDiv(x * SCALE, y)

RECURSIVE SqrtSearch(_, _, _)
\* largest r in lo..hi with r * r <= n   (lo * lo <= n < (hi + 1)^2)
SqrtSearch(n, lo, hi) ==
  IF lo >= hi THEN lo
  ELSE IF ((lo + hi + 1) \div 2) * ((lo + hi + 1) \div 2) <= n
       THEN SqrtSearch(n, (lo + hi + 1) \div 2, hi)
       ELSE SqrtSearch(n, lo, ((lo + hi + 1) \div 2) - 1)

\* r or r + 1, whichever is nearer to the square root of n
SqrtNearest(n, r) == IF n - r * r > r THEN r + 1 ELSE r

\* integer square root rounded to nearest (0 <= n < 2^31)
ISqrt(n) == SqrtNearest(n, SqrtSearch(n, 0, 46340))

\* std::sqrt on a float in units: sqrt(x / SCALE) * SCALE
FSqrt(x) == ISqrt(x * SCALE)

---------------------------------------------------------------------------
(* glm::vec3 *)

VAdd(u, v) == <<u[1] + v[1], u[2] + v[2], u[3] + v[3]>>

VSub(u, v) == <<u[1] - v[1], u[2] - v[2], u[3] - v[3]>>

VNeg(u) == <<-u[1], -u[2], -u[3]>>

VScale(k, u) == <<FMul(k, u[1]), FMul(k, u[2]), FMul(k, u[3])>>

VDivS(u, k) == <<FDiv(u[1], k), FDiv(u[2], k), FDiv(u[3], k)>>

VMul(u, v) == <<FMul(u[1], v[1]), FMul(u[2], v[2]), FMul(u[3], v[3])>>

\* glm::dot: the sum of products, rounded once
Dot(u, v) == RoundDiv(u[1] * v[1] + u[2] * v[2] + u[3] * v[3], SCALE)

\* glm::length
Length(u) == ISqrt(u[1] * u[1] + u[2] * u[2] + u[3] * u[3])

\* glm::normalize (u # 0)
Normalize(u) == VDivS(u, Length(u))

\* glm::reflect(I, N) = I - N * dot(N, I) * 2
Reflect(i, n) == VSub(i, VScale(2 * Dot(n, i), n))

---------------------------------------------------------------------------
(* Ray *)

Ray(o, d) == [origin |-> o, direction |-> d]

At(r, t) == VAdd(r.origin, VScale(t, r.direction))

---------------------------------------------------------------------------
(* HitRecord *)

NullMaterial == 0

\* HitRecord record{} : value-initialised
ZeroRecord ==
  [front_face |-> FALSE, t |-> 0, point |-> <<0, 0, 0>>,
   normal |-> <<0, 0, 0>>, material |-> NullMaterial]

\* normal = front_face ? outward_normal : -outward_normal
FacingNormal(front_face, outward_normal) ==
  IF front_face THEN outward_normal ELSE VNeg(outward_normal)

\* variant: the front-face test with the comparison reversed
FrontFaceReversed(r, outward_normal) == Dot(r.direction, outward_normal) > 0

\* front_face = dot(ray.direction, outward_normal) < 0
FrontFace(r, outward_normal) == Dot(r.direction, outward_normal) < 0

SetFaceNormal(rec, r, outward_normal) ==
  [rec EXCEPT !.front_face = FrontFace(r, outward_normal),
              !.normal = FacingNormal(FrontFace(r, outward_normal),
                                      outward_normal)]

---------------------------------------------------------------------------
(* Sphere *)

Sphere(center, radius, material) ==
  [center_ |-> center, radius_ |-> radius, material_ |-> material]

\* the sphere hands its material to the record it fills
AttachMaterial(rec, s) == [rec EXCEPT !.material = s.material_]

\* a = dot(direction, direction)
QuadA(r) == Dot(r.direction, r.direction)

\* half_b = dot(oc, direction)
QuadHalfB(s, r) == Dot(VSub(r.origin, s.center_), r.direction)

\* c = dot(oc, oc) - radius * radius
QuadC(s, r) ==
  Dot(VSub(r.origin, s.center_), VSub(r.origin, s.center_))
    - FMul(s.radius_, s.radius_)

\* discriminant = half_b * half_b - a * c
Discriminant(s, r) ==
  FMul(QuadHalfB(s, r), QuadHalfB(s, r)) - FMul(QuadA(r), QuadC(s, r))

\* variant: the half-b root divided by 2a as in the full quadratic formula
SmallRootOver2a(s, r) ==
  FDiv(-QuadHalfB(s, r) - FSqrt(Discriminant(s, r)), 2 * QuadA(r))

\* root = (-half_b - sqrtd) / a
SmallRoot(s, r) ==
  FDiv(-QuadHalfB(s, r) - FSqrt(Discriminant(s, r)), QuadA(r))

\* root = (-half_b + sqrtd) / a
LargeRoot(s, r) ==
  FDiv(-QuadHalfB(s, r) + FSqrt(Discriminant(s, r)), QuadA(r))

\* record.t = root; record.point = ray.At(record.t)
SavePoint(rec, root, point) == [rec EXCEPT !.t = root, !.point = point]

\* variant: the division is by the magnitude of the radius
OutwardNormalByMagnitude(s, point) ==
  VDivS(VSub(point, s.center_), Abs(s.radius_))

\* outward_normal = (record.point - center_) / radius_
OutwardNormal(s, point) == VDivS(VSub(point, s.center_), s.radius_)

\* the hit result saved for an accepted root
SaveHit(s, r, root, rec) ==
  AttachMaterial(
    SetFaceNormal(SavePoint(rec, root, At(r, root)), r,
                  OutwardNormal(s, At(r, root))), s)

\* variant: the larger root is tried first
SelectRootLargeFirst(s, r, tmin, tmax, rec, disc, root1, root2) ==
  IF disc < 0 THEN [hit |-> FALSE, rec |-> rec]
  ELSE IF root2 < tmin \/ root2 > tmax
       THEN IF root1 < tmin \/ root1 > tmax
            THEN [hit |-> FALSE, rec |-> rec]
            ELSE [hit |-> TRUE, rec |-> SaveHit(s, r, root1, rec)]
       ELSE [hit |-> TRUE, rec |-> SaveHit(s, r, root2, rec)]

\* variant: a root equal to t_max is out of range
SelectRootBelowMax(s, r, tmin, tmax, rec, disc, root1, root2) ==
  IF disc < 0 THEN [hit |-> FALSE, rec |-> rec]
  ELSE IF root1 < tmin \/ root1 >= tmax
       THEN IF root2 < tmin \/ root2 >= tmax
            THEN [hit |-> FALSE, rec |-> rec]
            ELSE [hit |-> TRUE, rec |-> SaveHit(s, r, root2, rec)]
       ELSE [hit |-> TRUE, rec |-> SaveHit(s, r, root1, rec)]

\* the branches of Sphere::Hit on the discriminant and the two roots
SelectRoot(s, r, tmin, tmax, rec, disc, root1, root2) ==
  IF disc < 0 THEN [hit |-> FALSE, rec |-> rec]
  ELSE IF root1 < tmin \/ root1 > tmax
       THEN IF root2 < tmin \/ root2 > tmax
            THEN [hit |-> FALSE, rec |-> rec]
            ELSE [hit |-> TRUE, rec |-> SaveHit(s, r, root2, rec)]
       ELSE [hit |-> TRUE, rec |-> SaveHit(s, r, root1, rec)]

\* Sphere::Hit: the returned bool and the record as the call leaves it
SphereHit(s, r, tmin, tmax, rec) ==
  SelectRoot(s, r, tmin, tmax, rec, Discriminant(s, r), SmallRoot(s, r),
             LargeRoot(s, r))

---------------------------------------------------------------------------
(* HittableList *)

\* the locals of HittableList::Hit before the loop
HitStart(tmax, rec) ==
  [hit_anything |-> FALSE, closest_so_far |-> tmax,
   temp_record |-> ZeroRecord, record |-> rec]

\* variant: the upper bound is not narrowed after a hit
HitAcceptNoNarrow(st, h) ==
  IF h.hit
  THEN [hit_anything |-> TRUE, closest_so_far |-> st.closest_so_far,
        temp_record |-> h.rec, record |-> h.rec]
  ELSE [st EXCEPT !.temp_record = h.rec]

\* variant: the caller's record takes the hit but keeps its old material
HitAcceptStaleMaterial(st, h) ==
  IF h.hit
  THEN [hit_anything |-> TRUE, closest_so_far |-> h.rec.t,
        temp_record |-> h.rec,
        record |-> [h.rec EXCEPT !.material = st.record.material]]
  ELSE [st EXCEPT !.temp_record = h.rec]

\* the body of the if in the loop, h being what object->Hit returned and left
\* in temp_record
HitAccept(st, h) ==
  IF h.hit
  THEN [hit_anything |-> TRUE, closest_so_far |-> h.rec.t,
        temp_record |-> h.rec, record |-> h.rec]
  ELSE [st EXCEPT !.temp_record = h.rec]

\* one iteration of the loop over objects_
HitStep(st, object, r, tmin) ==
  HitAccept(st, SphereHit(object, r, tmin, st.closest_so_far, st.temp_record))

RECURSIVE HitLoop(_, _, _, _, _)
HitLoop(st, objects, i, r, tmin) ==
  IF i > Len(objects) THEN st
  ELSE HitLoop(HitStep(st, objects[i], r, tmin), objects, i + 1, r, tmin)

\* return hit_anything, with the caller's record
HitResult(st) == [hit |-> st.hit_anything, rec |-> st.record]

\* HittableList::Hit as one call
ListHit(objects, r, tmin, tmax, rec) ==
  HitResult(HitLoop(HitStart(tmax, rec), objects, 1, r, tmin))

---------------------------------------------------------------------------
(* Inputs of the intersection queries *)

\* a vector of whole numbers, in units
V3(x, y, z) == <<x * SCALE, y * SCALE, z * SCALE>>

\* material handles: 1 Lambertian, 2 Metal (the table is Materials below)
SphereSet ==
  { Sphere(V3(0, 0, -3), SCALE, 1),
    Sphere(V3(0, 0, -6), 2 * SCALE, 2),
    Sphere(V3(1, 0, -3), SCALE, 2),
    Sphere(V3(0, 0, 0), 2 * SCALE, 1),
    Sphere(V3(0, 0, -3), -SCALE, 2) }

RECURSIVE SeqsUpTo(_, _)
\* all sequences over S of length 0..n
SeqsUpTo(S, n) ==
  IF n = 0 THEN {<<>>}
  ELSE LET shorter == SeqsUpTo(S, n - 1)
       IN  shorter \cup {Append(q, x) : q \in shorter, x \in S}

OriginSet == {V3(0, 0, 0), V3(0, 1, 0), V3(0, 0, 2)}

DirectionSet ==
  {V3(0, 0, -1), V3(0, 0, -2), V3(0, 1, -3), V3(1, 0, -3), V3(0, 0, 1),
   V3(1, 1, -4), V3(0, 1, 0), V3(0, -1, 0)}

\* the spheres Render adds to the world a ray is traced through
WorldSet ==
  { Sphere(V3(0, 0, -3), SCALE, 1),
    Sphere(V3(0, 0, -6), 2 * SCALE, 2),
    Sphere(V3(1, 0, -3), SCALE, 2),
    Sphere(V3(0, 0, 0), 2 * SCALE, 1) }

TMinSet == {0, T_MIN, 2500}

TMaxSet == {1500, 4000, INFINITY_F}

\* the explicit loop before its first iteration: an attenuation product of
\* (1, 1, 1) and no colour yet
LoopStart == [attenuation |-> <<SCALE, SCALE, SCALE>>, color |-> <<0, 0, 0>>]

\* no Application is constructed: no sync objects and no frame
FrameIdle ==
  /\ in_flight_fences_ = <<>>
  /\ submitted = <<>>
  /\ current_frame_ = 0
  /\ framebuffer_resized_ = FALSE
  /\ draws = 0
  /\ completed = 0
  /\ swap_chains = 0

\* the variables of the colour integrator while only Hit is exercised
TraceIdle ==
  /\ bounce = 0
  /\ bounce_limit_ = 0
  /\ attenuation = <<0, 0, 0>>
  /\ scattered = Ray(<<0, 0, 0>>, <<0, 0, 0>>)
  /\ scatter_ok = FALSE
  /\ stack = <<>>
  /\ result = <<0, 0, 0>>
  /\ hits = 0
  /\ scatters = 0
  /\ loop = LoopStart

\* no GetColor call is running
ColorIdle ==
  /\ pixel_color = <<0, 0, 0>>
  /\ channels = <<0, 0, 0>>
  /\ packed = <<0, 0, 0, 0>>

\* the Scene as constructed, with the settings of a small frame
SceneConstructed ==
  /\ width_ = 0
  /\ height_ = 0
  /\ samples_per_pixel_ = 1
  /\ gamma_ = SCALE
  /\ fov_ = 90
  /\ aperture_ = 0
  /\ is_playing_ = FALSE
  /\ image_data_ = <<>>
  /\ pixel_i = 0
  /\ pixel_j = 0
  /\ generator = 0
  /\ renders = 0
  /\ writes = <<>>
  /\ div_by_zero = FALSE
  /\ first_data = <<>>
  /\ first_start = 0
  /\ last_start = 0
  /\ image_ = <<>>
  /\ camera = <<>>
  /\ return_to = "ui"
  /\ uploads = <<>>

\* no frame and no Render is running
RenderIdle ==
  /\ SceneConstructed
  /\ undefined_cast = 0

---------------------------------------------------------------------------
(* HittableList::Hit, one loop iteration per step *)

InitHit ==
  /\ FrameIdle
  /\ objects_ \in SeqsUpTo(SphereSet, MaxObjects)
  /\ ray \in {Ray(o, d) : o \in OriginSet, d \in DirectionSet}
  /\ t_min \in TMinSet
  /\ t_max \in TMaxSet
  /\ hit_anything = FALSE
  /\ closest_so_far = t_max
  /\ temp_record = ZeroRecord
  /\ idx = 1
  /\ record = ZeroRecord
  /\ pc = "hit_loop"
  /\ TraceIdle
  /\ RenderIdle
  /\ ColorIdle

\* the locals of the running HittableList::Hit call
HitLocals ==
  [hit_anything |-> hit_anything, closest_so_far |-> closest_so_far,
   temp_record |-> temp_record, record |-> record]

\* the locals become st
SetHitLocals(st) ==
  /\ hit_anything' = st.hit_anything
  /\ closest_so_far' = st.closest_so_far
  /\ temp_record' = st.temp_record
  /\ record' = st.record

\* for (const auto& object : objects_) { if (object->Hit(...)) {...} }
HitIterate ==
  /\ pc = "hit_loop"
  /\ idx <= Len(objects_)
  /\ SetHitLocals(HitStep(HitLocals, objects_[idx], ray, t_min))
  /\ idx' = idx + 1
  /\ UNCHANGED <<objects_, ray, t_min, t_max, pc, traceVars>>
  /\ UNCHANGED <<renderVars, colorVars, frameVars>>

\* return hit_anything;
HitReturn ==
  /\ pc = "hit_loop"
  /\ idx > Len(objects_)
  /\ pc' = "hit_done"
  /\ UNCHANGED <<objects_, ray, t_min, t_max, closest_so_far, temp_record,
                 hit_anything, idx, record, traceVars>>
  /\ UNCHANGED <<renderVars, colorVars, frameVars>>

NextHit == HitIterate \/ HitReturn

SpecHit == InitHit /\ [][NextHit]_vars

---------------------------------------------------------------------------
(* Materials *)

\* the material table: a sphere and a hit record hold an index into it
Materials ==
  << [kind |-> "Lambertian", albedo_ |-> <<100, 200, 500>>, fuzz_ |-> 0],
     [kind |-> "Metal", albedo_ |-> <<800, 600, 200>>, fuzz_ |-> 0],
     [kind |-> "Metal", albedo_ |-> <<800, 600, 200>>, fuzz_ |-> SCALE],
     [kind |-> "Dielectric", refraction_index_ |-> 1500],
     [kind |-> "Dielectric", refraction_index_ |-> SCALE],
     [kind |-> "Lambertian", albedo_ |-> <<500, 500, 500>>, fuzz_ |-> 0] >>

\* draws of Utils::RandomVec3(): three floats in [0, 1), not all zero
RandomVec3Set == {<<0, 0, 500>>, <<500, 500, 500>>}

\* draws of Utils::RandomInUnitSphere(): points of the unit ball
RandomInUnitSphereSet == {<<0, 0, 0>>, <<500, -500, 0>>}

\* draws of Utils::RandomFloat(): floats in [0, 1)
RandomFloatSet == {0, 500, 999}

\* the values the random engine hands to one Scatter call of a material of
\* the given kind: each kind draws through one of the three helpers only
RandomDraws(kind) ==
  IF kind = "Lambertian"
  THEN {[vec3 |-> v, sphere |-> <<0, 0, 0>>, float |-> 0] :
          v \in RandomVec3Set}
  ELSE IF kind = "Metal"
       THEN {[vec3 |-> <<0, 0, 0>>, sphere |-> p, float |-> 0] :
               p \in RandomInUnitSphereSet}
       ELSE {[vec3 |-> <<0, 0, 0>>, sphere |-> <<0, 0, 0>>, float |-> f] :
               f \in RandomFloatSet}

\* Utils::NearZero: every component is below the epsilon 1e-8 in absolute
\* value; the epsilon is below one unit, so only a zero component is below it
NearZero(v) == \A i \in 1..3 : Abs(v[i]) < 1

\* variant: the direction is used as computed
ScatterDirectionAsComputed(sum, normal) == sum

\* if (Utils::NearZero(scatter_direction)) scatter_direction = record.normal
ScatterDirection(sum, normal) == IF NearZero(sum) THEN normal ELSE sum

\* variant: the scattered ray leaves from the origin of the incoming ray
LambertianScatterFromOrigin(m, r, rec, rnd) ==
  [ok |-> TRUE, attenuation |-> m.albedo_,
   scattered |->
     Ray(r.origin,
         ScatterDirection(VAdd(Reflect(Normalize(r.direction), rec.normal),
                               Normalize(rnd)), rec.normal))]

\* Lambertian::Scatter; rnd is the value Utils::RandomVec3() returns
LambertianScatter(m, r, rec, rnd) ==
  [ok |-> TRUE, attenuation |-> m.albedo_,
   scattered |->
     Ray(rec.point,
         ScatterDirection(VAdd(Reflect(Normalize(r.direction), rec.normal),
                               Normalize(rnd)), rec.normal))]

\* variant: a reflection along the surface counts as scattered
MetalResultGrazing(m, rec, sc) ==
  [ok |-> Dot(sc.direction, rec.normal) >= 0, attenuation |-> m.albedo_,
   scattered |-> sc]

\* return dot(scattered.direction, record.normal) > 0, with the out-parameters
MetalResult(m, rec, sc) ==
  [ok |-> Dot(sc.direction, rec.normal) > 0, attenuation |-> m.albedo_,
   scattered |-> sc]

\* Metal::Scatter; rnd is the value Utils::RandomInUnitSphere() returns
MetalScatter(m, r, rec, rnd) ==
  MetalResult(m, rec,
    Ray(rec.point, VAdd(Reflect(Normalize(r.direction), rec.normal),
                        VScale(m.fuzz_, rnd))))

Min(x, y) == IF x < y THEN x ELSE y

\* variant: the ratio is inverted when the ray leaves the sphere instead
RefractionRatioReversed(m, rec) ==
  IF rec.front_face THEN m.refraction_index_
  ELSE FDiv(SCALE, m.refraction_index_)

\* refraction_ratio = front_face ? (1.f / refraction_index_) : refraction_index_
RefractionRatio(m, rec) ==
  IF rec.front_face THEN FDiv(SCALE, m.refraction_index_)
  ELSE m.refraction_index_

\* cos_theta = std::fmin(glm::dot(-unit_direction, record.normal), 1.f)
CosTheta(unit, normal) == Min(Dot(VNeg(unit), normal), SCALE)

\* sin_theta = std::sqrtf(1.f - cos_theta * cos_theta)
SinTheta(cos) == FSqrt(SCALE - FMul(cos, cos))

\* std::pow(x, 5.f)
Pow5(x) == FMul(FMul(FMul(FMul(x, x), x), x), x)

\* r + (1 - r) * pow(1 - cosine, 5), r being the squared ratio below
Schlick(r, cosine) == r + FMul(SCALE - r, Pow5(SCALE - cosine))

\* r = (1 - refraction_ratio) / (1 + refraction_ratio) in Reflectance
ReflectanceBase(ratio) == FDiv(SCALE - ratio, SCALE + ratio)

\* Dielectric::Reflectance
Reflectance(cosine, ratio) ==
  Schlick(FMul(ReflectanceBase(ratio), ReflectanceBase(ratio)), cosine)

\* k = 1 - eta * eta * (1 - dot(N, I) * dot(N, I)) in glm::refract
RefractK(d, eta) == SCALE - FMul(FMul(eta, eta), SCALE - FMul(d, d))

\* eta * I - (eta * dot(N, I) + sqrt(k)) * N, or zero when k < 0
RefractWith(i, n, eta, d, k) ==
  IF k < 0 THEN <<0, 0, 0>>
  ELSE VSub(VScale(eta, i), VScale(FMul(eta, d) + FSqrt(k), n))

\* glm::refract(I, N, eta)
Refract(i, n, eta) ==
  RefractWith(i, n, eta, Dot(n, i), RefractK(Dot(n, i), eta))

\* cannot_refract || Reflectance(cos_theta, refraction_ratio) > RandomFloat()
MustReflect(ratio, cos, rnd) ==
  \/ FMul(ratio, SinTheta(cos)) > SCALE
  \/ Reflectance(cos, ratio) > rnd

\* the direction Dielectric::Scatter gives the scattered ray
DielectricDirection(unit, normal, ratio, rnd) ==
  IF MustReflect(ratio, CosTheta(unit, normal), rnd)
  THEN Reflect(unit, normal)
  ELSE Refract(unit, normal, ratio)

\* Dielectric::Scatter; rnd is the value Utils::RandomFloat() returns
DielectricScatter(m, r, rec, rnd) ==
  [ok |-> TRUE, attenuation |-> <<SCALE, SCALE, SCALE>>,
   scattered |->
     Ray(rec.point,
         DielectricDirection(Normalize(r.direction), rec.normal,
                             RefractionRatio(m, rec), rnd))]

\* record.material->Scatter(ray, record, attenuation, scattered)
Scatter(handle, r, rec, rnd) ==
  IF Materials[handle].kind = "Lambertian"
  THEN LambertianScatter(Materials[handle], r, rec, rnd.vec3)
  ELSE IF Materials[handle].kind = "Metal"
       THEN MetalScatter(Materials[handle], r, rec, rnd.sphere)
       ELSE DielectricScatter(Materials[handle], r, rec, rnd.float)

---------------------------------------------------------------------------
(* Scene::RayColor *)

Black == <<0, 0, 0>>

\* variant: the cut-off only below zero
BounceExhaustedBelowZero(b) == b < 0

\* if (bounce <= 0)
BounceExhausted(b) == b <= 0

\* (1 - t) * (1, 1, 1) + t * (0.5, 0.7, 1)
Gradient(t) ==
  VAdd(VScale(SCALE - t, <<SCALE, SCALE, SCALE>>),
       VScale(t, <<SCALE \div 2, (7 * SCALE) \div 10, SCALE>>))

\* variant: the gradient taken along x
BackgroundAlongX(r) ==
  Gradient(FMul(SCALE \div 2, Normalize(r.direction)[1] + SCALE))

\* background color: t = 0.5 * (unit_direction.y + 1)
Background(r) ==
  Gradient(FMul(SCALE \div 2, Normalize(r.direction)[2] + SCALE))

\* the locals world.Hit(ray, 0.001f, INFINITY_F, record) ends with, record
\* being the fresh record of the frame
WorldHit == HitLoop(HitStart(INFINITY_F, ZeroRecord), objects_, 1, ray, T_MIN)

\* the frame of a RayColor call suspended in its recursive call
Frame ==
  [ray |-> ray, bounce |-> bounce, record |-> record,
   attenuation |-> attenuation, scattered |-> scattered]

InitTrace ==
  /\ FrameIdle
  /\ objects_ \in SeqsUpTo(WorldSet, MaxObjects)
  /\ ray \in {Ray(o, d) : o \in OriginSet, d \in DirectionSet}
  /\ bounce_limit_ \in 0..MaxBounce
  /\ bounce = bounce_limit_
  /\ record = ZeroRecord
  /\ pc = "call"
  /\ attenuation = Black
  /\ scattered = Ray(<<0, 0, 0>>, <<0, 0, 0>>)
  /\ scatter_ok = FALSE
  /\ stack = <<>>
  /\ result = Black
  /\ hits = 0
  /\ scatters = 0
  /\ loop = LoopStart
  /\ t_min = 0
  /\ t_max = 0
  /\ closest_so_far = 0
  /\ temp_record = ZeroRecord
  /\ hit_anything = FALSE
  /\ idx = 1
  /\ RenderIdle
  /\ ColorIdle

\* the parameters and final locals of the Hit call the step makes
HitCalled(st) ==
  /\ t_min' = T_MIN
  /\ t_max' = INFINITY_F
  /\ closest_so_far' = st.closest_so_far
  /\ temp_record' = st.temp_record
  /\ hit_anything' = st.hit_anything
  /\ record' = st.record
  /\ idx' = Len(objects_) + 1
  /\ hits' = hits + 1

\* one iteration of the explicit loop that scatters: the attenuation is
\* multiplied into the accumulated product
LoopStep(l, a) == [l EXCEPT !.attenuation = VMul(l.attenuation, a)]

\* the explicit loop ends: it returns the accumulated product times the
\* terminal colour
LoopEnd(l, terminal) == [l EXCEPT !.color = VMul(l.attenuation, terminal)]

\* if (bounce <= 0) return black
RayColorBounceLimit ==
  /\ pc = "call"
  /\ BounceExhausted(bounce)
  /\ result' = Black
  /\ pc' = "ret"
  /\ UNCHANGED <<objects_, ray, hitVars, record, bounce, bounce_limit_,
                 attenuation, scattered, scatter_ok, stack, hits, scatters>>
  /\ loop' = LoopEnd(loop, Black)
  /\ UNCHANGED <<renderVars, colorVars, frameVars>>

\* the hit branch, st being the locals world.Hit ended with
HitBranch(st) ==
  /\ st.hit_anything
  /\ HitCalled(st)
  /\ pc' = "scatter"
  /\ UNCHANGED <<objects_, ray, bounce, bounce_limit_, attenuation, scattered,
                 scatter_ok, stack, result, scatters>>
  /\ UNCHANGED loop
  /\ UNCHANGED <<renderVars, colorVars, frameVars>>

\* the miss branch, st being the locals world.Hit ended with
MissBranch(st) ==
  /\ ~st.hit_anything
  /\ HitCalled(st)
  /\ result' = Background(ray)
  /\ pc' = "ret"
  /\ UNCHANGED <<objects_, ray, bounce, bounce_limit_, attenuation, scattered,
                 scatter_ok, stack, scatters>>
  /\ loop' = LoopEnd(loop, Background(ray))
  /\ UNCHANGED <<renderVars, colorVars, frameVars>>

\* if (world.Hit(ray, 0.001f, INFINITY_F, record)) : taken
RayColorHit ==
  /\ pc = "call"
  /\ ~BounceExhausted(bounce)
  /\ HitBranch(WorldHit)

\* world.Hit misses: the background color is returned
RayColorBackground ==
  /\ pc = "call"
  /\ ~BounceExhausted(bounce)
  /\ MissBranch(WorldHit)

\* the out-parameters and the returned bool of Scatter
Scattered(sc) ==
  /\ scatter_ok' = sc.ok
  /\ attenuation' = sc.attenuation
  /\ scattered' = sc.scattered

\* record.material->Scatter(ray, record, attenuation, scattered)
MaterialScatter ==
  /\ pc = "scatter"
  /\ \E rnd \in RandomDraws(Materials[record.material].kind) :
       Scattered(Scatter(record.material, ray, record, rnd))
  /\ scatters' = scatters + 1
  /\ pc' = "scattered"
  /\ UNCHANGED <<objects_, ray, hitVars, record, bounce, bounce_limit_, stack,
                 result, hits>>
  /\ UNCHANGED loop
  /\ UNCHANGED <<renderVars, colorVars, frameVars>>

\* variant: the recursive call passes the budget on unchanged
RayColorRecurseSameBudget ==
  /\ pc = "scattered"
  /\ scatter_ok
  /\ stack' = <<Frame>> \o stack
  /\ ray' = scattered
  /\ bounce' = bounce
  /\ record' = ZeroRecord
  /\ attenuation' = Black
  /\ scattered' = Ray(<<0, 0, 0>>, <<0, 0, 0>>)
  /\ scatter_ok' = FALSE
  /\ pc' = "call"
  /\ UNCHANGED <<objects_, hitVars, bounce_limit_, result, hits, scatters>>
  /\ loop' = LoopStep(loop, attenuation)
  /\ UNCHANGED <<renderVars, colorVars, frameVars>>

\* Scatter returned true: RayColor(scattered, world, bounce - 1) is called
RayColorRecurse ==
  /\ pc = "scattered"
  /\ scatter_ok
  /\ stack' = <<Frame>> \o stack
  /\ ray' = scattered
  /\ bounce' = bounce - 1
  /\ record' = ZeroRecord
  /\ attenuation' = Black
  /\ scattered' = Ray(<<0, 0, 0>>, <<0, 0, 0>>)
  /\ scatter_ok' = FALSE
  /\ pc' = "call"
  /\ UNCHANGED <<objects_, hitVars, bounce_limit_, result, hits, scatters>>
  /\ loop' = LoopStep(loop, attenuation)
  /\ UNCHANGED <<renderVars, colorVars, frameVars>>

\* Scatter returned false: return black
RayColorAbsorbed ==
  /\ pc = "scattered"
  /\ ~scatter_ok
  /\ result' = Black
  /\ pc' = "ret"
  /\ UNCHANGED <<objects_, ray, hitVars, record, bounce, bounce_limit_,
                 attenuation, scattered, scatter_ok, stack, hits, scatters>>
  /\ loop' = LoopEnd(loop, Black)
  /\ UNCHANGED <<renderVars, colorVars, frameVars>>

\* variant: the colour of the recursive call is returned without attenuation
RayColorReturnUnattenuated ==
  /\ pc = "ret"
  /\ stack # <<>>
  /\ LET f == Head(stack)
     IN  /\ result' = result
         /\ ray' = f.ray
         /\ bounce' = f.bounce
         /\ record' = f.record
         /\ attenuation' = f.attenuation
         /\ scattered' = f.scattered
  /\ scatter_ok' = TRUE
  /\ stack' = Tail(stack)
  /\ UNCHANGED <<objects_, hitVars, pc, bounce_limit_, hits, scatters>>
  /\ UNCHANGED loop
  /\ UNCHANGED <<renderVars, colorVars, frameVars>>

\* the recursive call returned: return attenuation * RayColor(...)
RayColorReturn ==
  /\ pc = "ret"
  /\ stack # <<>>
  /\ LET f == Head(stack)
     IN  /\ result' = VMul(f.attenuation, result)
         /\ ray' = f.ray
         /\ bounce' = f.bounce
         /\ record' = f.record
         /\ attenuation' = f.attenuation
         /\ scattered' = f.scattered
  /\ scatter_ok' = TRUE
  /\ stack' = Tail(stack)
  /\ UNCHANGED <<objects_, hitVars, pc, bounce_limit_, hits, scatters>>
  /\ UNCHANGED loop
  /\ UNCHANGED <<renderVars, colorVars, frameVars>>

\* the top-level RayColor call has returned
Done == pc = "ret" /\ stack = <<>>

Next ==
  \/ RayColorBounceLimit
  \/ RayColorHit
  \/ RayColorBackground
  \/ MaterialScatter
  \/ RayColorRecurse
  \/ RayColorAbsorbed
  \/ RayColorReturn

Spec == InitTrace /\ [][Next]_vars

---------------------------------------------------------------------------
(* Material::Scatter on the record of one sphere's hit *)

\* one sphere of every shape, carrying every material of the table
ScatterWorldSet ==
  {<<Sphere(s.center_, s.radius_, m)>> : s \in SphereSet, m \in DOMAIN Materials}

\* RayColor has just found the hit and is about to call Scatter
InitScatter ==
  /\ FrameIdle
  /\ objects_ \in ScatterWorldSet
  /\ ray \in {Ray(o, d) : o \in OriginSet, d \in DirectionSet}
  /\ WorldHit.hit_anything
  /\ record = WorldHit.record
  /\ temp_record = WorldHit.temp_record
  /\ closest_so_far = WorldHit.closest_so_far
  /\ hit_anything = TRUE
  /\ t_min = T_MIN
  /\ t_max = INFINITY_F
  /\ idx = 2
  /\ bounce_limit_ = 1
  /\ bounce = 1
  /\ pc = "scatter"
  /\ attenuation = Black
  /\ scattered = Ray(<<0, 0, 0>>, <<0, 0, 0>>)
  /\ scatter_ok = FALSE
  /\ stack = <<>>
  /\ result = Black
  /\ hits = 1
  /\ scatters = 0
  /\ loop = LoopStart
  /\ RenderIdle
  /\ ColorIdle

NextScatter == MaterialScatter

SpecScatter == InitScatter /\ [][NextScatter]_vars

---------------------------------------------------------------------------
(* Utils::GetColor(glm::vec3, int, float) *)

MaxSamples == 2

\* values a build may produce when a float outside the range of uint32_t is
\* converted to it (undefined behaviour)
UndefinedUint32Set == {0, 255, 256, 2147483647}

\* std::clamp(x, lo, hi)
Clamp(x, lo, hi) == IF x < lo THEN lo ELSE IF hi < x THEN hi ELSE x

\* scale = static_cast<float>(1.f / samples_per_pixel)
SampleScale(spp) == FDiv(SCALE, spp * SCALE)

\* std::clamp(scale * c, 0.f, 0.999f) * 256.f
Clamped256(c, spp) == FMul(Clamp(FMul(SampleScale(spp), c), 0, 999), 256 * SCALE)

\* static_cast<uint32_t>(std::pow(x, 1.f / gamma)) for the gammas 0, 0.5, 1
\* and 2: the exponents +infinity, 2, 1 and 0.5; x is a multiple of 0.256 and
\* cast is what the conversion of +infinity yields
PowTruncated(x, gamma, cast) ==
  IF gamma = 0
  THEN (IF x > SCALE THEN cast ELSE IF x = SCALE THEN 1 ELSE 0)
  ELSE IF gamma = 500 THEN ((x \div 8) * (x \div 8)) \div 15625
  ELSE IF gamma = SCALE THEN x \div SCALE
  ELSE SqrtSearch(x \div SCALE, 0, 46340)

\* the local R (G, B) for the channel c
Channel(c, spp, gamma, cast) == PowTruncated(Clamped256(c, spp), gamma, cast)

RECURSIVE BitOr(_, _)
\* a | b
BitOr(a, b) ==
  IF a = 0 THEN b
  ELSE IF b = 0 THEN a
  ELSE 2 * BitOr(a \div 2, b \div 2)
         + (IF a % 2 = 1 \/ b % 2 = 1 THEN 1 ELSE 0)

\* byte k (0 is the lowest) of the non-negative word v
Byte(v, k) ==
  IF k = 0 THEN v % 256
  ELSE IF k = 1 THEN (v \div 256) % 256
  ELSE IF k = 2 THEN (v \div 65536) % 256
  ELSE (v \div 16777216) % 256

\* variant: B goes to the low byte and R to bits 16-23
PackSwapped(R, G, B) ==
  << Byte(B, 0),
     BitOr(Byte(G, 0), Byte(B, 1)),
     BitOr(Byte(R, 0), BitOr(Byte(G, 1), Byte(B, 2))),
     BitOr(255, BitOr(Byte(R, 1), BitOr(Byte(G, 2), Byte(B, 3)))) >>

\* (255 << 24) | (B << 16) | (G << 8) | R in 32 bits, lowest byte first
Pack(R, G, B) ==
  << Byte(R, 0),
     BitOr(Byte(G, 0), Byte(R, 1)),
     BitOr(Byte(B, 0), BitOr(Byte(G, 1), Byte(R, 2))),
     BitOr(255, BitOr(Byte(B, 1), BitOr(Byte(G, 2), Byte(R, 3)))) >>

\* Utils::GetColor(color, samples_per_pixel, gamma)
GetColor(color, spp, gamma, cast) ==
  Pack(Channel(color[1], spp, gamma, cast), Channel(color[2], spp, gamma, cast),
       Channel(color[3], spp, gamma, cast))

\* accumulated channel values: 0, 0.003, 0.5, 1 and 2
ChannelSet == {0, 3, 500, SCALE, 2 * SCALE}

GammaSet == {0, 500, SCALE, 2 * SCALE}

\* everything but the GetColor call is idle
ColorInputs ==
  /\ FrameIdle
  /\ objects_ = <<>>
  /\ ray = Ray(<<0, 0, 0>>, <<0, 0, -SCALE>>)
  /\ t_min = 0
  /\ t_max = 0
  /\ closest_so_far = 0
  /\ temp_record = ZeroRecord
  /\ hit_anything = FALSE
  /\ idx = 1
  /\ record = ZeroRecord
  /\ TraceIdle
  /\ width_ = 0
  /\ height_ = 0
  /\ samples_per_pixel_ \in 1..MaxSamples
  /\ gamma_ \in GammaSet
  /\ fov_ = 90
  /\ aperture_ = 0
  /\ is_playing_ = FALSE
  /\ image_data_ = <<>>
  /\ pixel_i = 0
  /\ pixel_j = 0
  /\ generator = 0
  /\ renders = 0
  /\ writes = <<>>
  /\ div_by_zero = FALSE
  /\ first_data = <<>>
  /\ first_start = 0
  /\ last_start = 0
  /\ image_ = <<>>
  /\ camera = <<>>
  /\ return_to = "ui"
  /\ uploads = <<>>
  /\ undefined_cast \in UndefinedUint32Set

\* the 3-channel GetColor is about to be called
InitColor ==
  /\ pixel_color \in {<<r, g, b>> : r \in ChannelSet, g \in ChannelSet,
                                    b \in ChannelSet}
  /\ channels = <<0, 0, 0>>
  /\ packed = <<0, 0, 0, 0>>
  /\ pc = "color_call"
  /\ ColorInputs

\* Utils::GetColor(pixel_color, samples_per_pixel_, gamma_)
GetColorCall ==
  /\ pc = "color_call"
  /\ channels' =
       <<Channel(pixel_color[1], samples_per_pixel_, gamma_, undefined_cast),
         Channel(pixel_color[2], samples_per_pixel_, gamma_, undefined_cast),
         Channel(pixel_color[3], samples_per_pixel_, gamma_, undefined_cast)>>
  /\ packed' = GetColor(pixel_color, samples_per_pixel_, gamma_, undefined_cast)
  /\ pc' = "color_done"
  /\ UNCHANGED <<objects_, ray, hitVars, record, traceVars, renderVars,
                 pixel_color, frameVars>>

NextColor == GetColorCall

SpecColor == InitColor /\ [][NextColor]_vars

\* the local A of the 4-channel GetColor:
\* static_cast<uint32_t>(std::clamp(color.a, 0.f, 0.999f) * 256.f)
Alpha(a) == FMul(Clamp(a, 0, 999), 256 * SCALE) \div SCALE

\* variant: alpha fixed at 255 as in the 3-channel GetColor
Pack4Opaque(R, G, B, A) == Pack(R, G, B)

\* (A << 24) | (B << 16) | (G << 8) | R in 32 bits, lowest byte first
Pack4(R, G, B, A) ==
  << Byte(R, 0),
     BitOr(Byte(G, 0), Byte(R, 1)),
     BitOr(Byte(B, 0), BitOr(Byte(G, 1), Byte(R, 2))),
     BitOr(Byte(A, 0), BitOr(Byte(B, 1), BitOr(Byte(G, 2), Byte(R, 3)))) >>

\* Utils::GetColor(const glm::vec4 color, samples_per_pixel, gamma)
GetColor4(color, spp, gamma, cast) ==
  Pack4(Channel(color[1], spp, gamma, cast), Channel(color[2], spp, gamma, cast),
        Channel(color[3], spp, gamma, cast), Alpha(color[4]))

\* alpha values: below 0, 0, 0.003, 0.5, 0.999, 1 and 2
AlphaSet == {-500, 0, 3, 500, 999, SCALE, 2 * SCALE}

\* the 4-channel GetColor is about to be called
InitColor4 ==
  /\ pixel_color \in {<<c, c, b, a>> : c \in {0, SCALE}, b \in ChannelSet,
                                       a \in AlphaSet}
  /\ channels = <<0, 0, 0, 0>>
  /\ packed = <<0, 0, 0, 0>>
  /\ pc = "color4_call"
  /\ ColorInputs

\* Utils::GetColor(glm::vec4(...), samples_per_pixel_, gamma_)
GetColor4Call ==
  /\ pc = "color4_call"
  /\ channels' =
       <<Channel(pixel_color[1], samples_per_pixel_, gamma_, undefined_cast),
         Channel(pixel_color[2], samples_per_pixel_, gamma_, undefined_cast),
         Channel(pixel_color[3], samples_per_pixel_, gamma_, undefined_cast),
         Alpha(pixel_color[4])>>
  /\ packed' = GetColor4(pixel_color, samples_per_pixel_, gamma_,
                         undefined_cast)
  /\ pc' = "color4_done"
  /\ UNCHANGED <<objects_, ray, hitVars, record, traceVars, renderVars,
                 pixel_color, frameVars>>

NextColor4 == GetColor4Call

SpecColor4 == InitColor4 /\ [][NextColor4]_vars

---------------------------------------------------------------------------
(* The random engine, the camera and RayColor driven by the engine *)

\* the values the static engine of Utils::RandomFloat hands out, in order; the
\* engine state is the number of draws made, the stream repeating
RandomStream == <<0, 500, 250, 750, 999>>

\* the draw made in engine state g
RandomFloat(g) == RandomStream[(g % Len(RandomStream)) + 1]

\* Utils::RandomVec3() in engine state g: three draws
RandomVec3(g) == <<RandomFloat(g), RandomFloat(g + 1), RandomFloat(g + 2)>>

\* Utils::RandomInUnitSphere() in engine state g: three draws, each moved to
\* [-0.5, 0.5)
RandomInUnitSphere(g) ==
  <<RandomFloat(g) - 500, RandomFloat(g + 1) - 500, RandomFloat(g + 2) - 500>>

\* Utils::RandomInUnitDisk() in engine state g: two draws, each moved to
\* [-0.5, 0.5)
RandomInUnitDisk(g) == <<RandomFloat(g) - 500, RandomFloat(g + 1) - 500, 0>>

\* glm::cross
Cross(u, v) ==
  <<FMul(u[2], v[3]) - FMul(u[3], v[2]),
    FMul(u[3], v[1]) - FMul(u[1], v[3]),
    FMul(u[1], v[2]) - FMul(u[2], v[1])>>

\* glm::tan(Utils::DegreesToRadians(fov) / 2.f) for the angles 0 and 90
TanHalf(fov) == IF fov = 90 THEN SCALE ELSE 0

\* the members the Camera constructor computes from the basis and the
\* viewport extents
CameraFrom(origin, forward, right, up, vw, vh, aperture, focus_dist) ==
  [origin_ |-> origin, right_ |-> right, up_ |-> up,
   horizontal_ |-> VScale(FMul(focus_dist, vw), right),
   vertical_ |-> VScale(FMul(focus_dist, vh), up),
   lower_left_ |->
     VAdd(VSub(VSub(origin,
                    VDivS(VScale(FMul(focus_dist, vw), right), 2 * SCALE)),
               VDivS(VScale(FMul(focus_dist, vh), up), 2 * SCALE)),
          VScale(focus_dist, forward)),
   lens_radius_ |-> FDiv(aperture, 2 * SCALE)]

\* the basis: right = normalize(cross(forward, world_up)), up = cross(right,
\* forward)
CameraBasis(origin, forward, right, vw, vh, aperture, focus_dist) ==
  CameraFrom(origin, forward, right, Cross(right, forward), vw, vh, aperture,
             focus_dist)

\* Camera::Camera
Camera(origin, look_at, world_up, fov, aspect_ratio, aperture, focus_dist) ==
  CameraBasis(origin, Normalize(VSub(look_at, origin)),
              Normalize(Cross(Normalize(VSub(look_at, origin)), world_up)),
              FMul(2 * TanHalf(fov), aspect_ratio), 2 * TanHalf(fov),
              aperture, focus_dist)

\* variant: the direction is not adjusted for the moved origin
RayThroughUnadjusted(cam, u, v, offset) ==
  Ray(VAdd(cam.origin_, offset),
      VSub(VAdd(VAdd(cam.lower_left_, VScale(u, cam.horizontal_)),
                VScale(v, cam.vertical_)),
           cam.origin_))

\* the ray of Camera::GetRay, offset being right_ * rd.x + up_ * rd.y
RayThrough(cam, u, v, offset) ==
  Ray(VAdd(cam.origin_, offset),
      VSub(VSub(VAdd(VAdd(cam.lower_left_, VScale(u, cam.horizontal_)),
                     VScale(v, cam.vertical_)),
                cam.origin_),
           offset))

\* ray_direction = lens_radius_ * Utils::RandomInUnitDisk()
LensOffset(cam, rd) ==
  VAdd(VScale(rd[1], cam.right_), VScale(rd[2], cam.up_))

\* Camera::GetRay(u, v) in engine state g
GetRay(cam, u, v, g) ==
  RayThrough(cam, u, v,
             LensOffset(cam, VScale(cam.lens_radius_, RandomInUnitDisk(g))))

\* the values one Scatter call draws in engine state g
EngineDraws(g) ==
  [vec3 |-> RandomVec3(g), sphere |-> RandomInUnitSphere(g),
   float |-> RandomFloat(g)]

\* the number of draws one Scatter call makes: Lambertian and Metal three,
\* Dielectric one unless cannot_refract short-circuits the comparison
DrawCount(m, r, rec) ==
  IF m.kind # "Dielectric" THEN 3
  ELSE IF FMul(RefractionRatio(m, rec),
               SinTheta(CosTheta(Normalize(r.direction), rec.normal))) > SCALE
       THEN 0 ELSE 1

\* a colour and the engine state after computing it
Traced(color, g) == [color |-> color, generator |-> g]

\* variant: the attenuation is added to the colour of the recursive call
AttenuatedAdded(att, tr) == Traced(VAdd(att, tr.color), tr.generator)

\* attenuation * (the colour of the recursive call)
Attenuated(att, tr) == Traced(VMul(att, tr.color), tr.generator)

RECURSIVE RayColor(_, _, _, _)
\* the hit branch of RayColor, sc being what Scatter returned
RayColorScattered(sc, world, b, g) ==
  IF sc.ok THEN Attenuated(sc.attenuation, RayColor(sc.scattered, world, b - 1, g))
  ELSE Traced(Black, g)

\* RayColor after world.Hit ended with the locals st
RayColorAfterHit(r, world, b, g, st) ==
  IF st.hit_anything
  THEN RayColorScattered(
         Scatter(st.record.material, r, st.record, EngineDraws(g)), world, b,
         g + DrawCount(Materials[st.record.material], r, st.record))
  ELSE Traced(Background(r), g)

\* Scene::RayColor(r, world, b) begun in engine state g
RayColor(r, world, b, g) ==
  IF BounceExhausted(b) THEN Traced(Black, g)
  ELSE RayColorAfterHit(r, world, b, g,
         HitLoop(HitStart(INFINITY_F, ZeroRecord), world, 1, r, T_MIN))

---------------------------------------------------------------------------
(* Scene::Render, one pixel per step *)

MaxRenders == 2

\* an element of new uint32_t[n] that was never written
Uninitialized == <<>>

\* Scene::origin_ once dragged to the low end of its range [0, 1]; the
\* initial {0, 4, 5} takes the products of the intersection test out of the
\* range of the fixed-point arithmetic
origin_ == <<0, 0, 0>>

LookAt == <<0, 0, -SCALE>>

WorldUp == <<0, SCALE, 0>>

\* Camera camera(origin, lookat, world_up, fov_, static_cast<float>(width_ /
\* height_), aperture_, focus_dist), aspect being the value of width_ / height_
RenderCamera(aspect) ==
  Camera(origin_, LookAt, WorldUp, fov_, aspect * SCALE, aperture_,
         Length(VSub(origin_, LookAt)))

\* width_ / height_ ends the program
Trap == -1

\* what width_ / height_ may do: the quotient, or with a zero divisor
\* (undefined behaviour) a trap or some value
AspectOutcomes == IF height_ = 0 THEN {Trap, 0, 1} ELSE {width_ \div height_}

\* variant: only the width is compared
MustAllocateWidthOnly ==
  \/ image_ = <<>>
  \/ width_ # image_.width

\* if (!image_ || width_ != image_->GetWidth() || height_ != image_->GetHeight())
MustAllocate ==
  \/ image_ = <<>>
  \/ width_ # image_.width
  \/ height_ # image_.height

\* Render up to the pixel loops
RenderBegin ==
  /\ pc = "render"
  /\ image_' = IF MustAllocate THEN [width |-> width_, height |-> height_]
               ELSE image_
  /\ image_data_' = IF MustAllocate
                    THEN [k \in 1..(width_ * height_) |-> Uninitialized]
                    ELSE image_data_
  /\ \E aspect \in AspectOutcomes :
       /\ pc' = IF aspect = Trap THEN "trapped" ELSE "render_loop"
       /\ camera' = IF aspect = Trap THEN camera ELSE RenderCamera(aspect)
  /\ div_by_zero' = (height_ = 0)
  /\ renders' = renders + 1
  /\ writes' = <<>>
  /\ pixel_i' = 0
  /\ pixel_j' = 0
  /\ last_start' = generator
  /\ first_start' = IF renders = 0 THEN generator ELSE first_start
  /\ uploads' = <<>>
  /\ UNCHANGED <<objects_, ray, hitVars, record, traceVars, colorVars,
                 frameVars, width_,
                 height_, samples_per_pixel_, gamma_, fov_, aperture_,
                 is_playing_, generator, first_data, return_to,
                 undefined_cast>>

\* u = static_cast<float>(i + Utils::RandomFloat()) / static_cast<float>(width_ - 1)
SampleU(rnd) == FDiv(pixel_i * SCALE + rnd, (width_ - 1) * SCALE)

\* v = 1.f - static_cast<float>(j + Utils::RandomFloat()) / static_cast<float>(height_ - 1)
SampleV(rnd) == SCALE - FDiv(pixel_j * SCALE + rnd, (height_ - 1) * SCALE)

\* Ray ray = camera.GetRay(u, v), the sample beginning in engine state g
SampleRay(g) ==
  GetRay(camera, SampleU(RandomFloat(g)), SampleV(RandomFloat(g + 1)), g + 2)

RECURSIVE SampleLoop(_, _, _)
\* pixel_color += RayColor(ray, world, bounce_limit_)
SampleAdd(s, acc, tr) == SampleLoop(s + 1, VAdd(acc, tr.color), tr.generator)

\* for (int s = 0; s < samples_per_pixel_; ++s), from sample s on
SampleLoop(s, acc, g) ==
  IF s >= samples_per_pixel_ THEN Traced(acc, g)
  ELSE SampleAdd(s, acc, RayColor(SampleRay(g), objects_, bounce_limit_, g + 4))

\* variant: pixel_color starts from what the buffer held at that index
PixelStartStale(old) ==
  IF old = Uninitialized THEN Black
  ELSE <<old[1] * 4, old[2] * 4, old[3] * 4>>

\* glm::vec3 pixel_color{}
PixelStart(old) == Black

\* variant: column-major
PixelIndexColumnMajor(i, j) == i * height_ + j

\* j * width_ + i
PixelIndex(i, j) == j * width_ + i

\* a division by width_ - 1 or height_ - 1 divides by zero
ZeroDivisor == width_ = 1 \/ height_ = 1

\* the value written for the pixel, tr being its colour and the engine state
\* after its samples; with a zero divisor u or v is infinite or NaN, and a
\* ray that is looked at (bounce_limit_ > 0) gives a colour whose conversion
\* to uint32_t is whatever the build makes of it
PixelValue(tr) ==
  IF ZeroDivisor /\ bounce_limit_ > 0
  THEN Pack(undefined_cast, undefined_cast, undefined_cast)
  ELSE GetColor(tr.color, samples_per_pixel_, gamma_, undefined_cast)

\* the primary ray of the pixel's first sample hits the world
PrimaryHit ==
  ~ZeroDivisor /\
    HitLoop(HitStart(INFINITY_F, ZeroRecord), objects_, 1, SampleRay(generator),
            T_MIN).hit_anything

\* image_data_[k] = px, a write past the end leaving the buffer as it is
Written(k, px) ==
  IF k < Len(image_data_) THEN [image_data_ EXCEPT ![k + 1] = px]
  ELSE image_data_

\* the body of the loops for the pixel (pixel_i, pixel_j), tr being the result
\* of its samples
RenderPixelWith(k, tr) ==
  /\ image_data_' = Written(k, PixelValue(tr))
  /\ writes' = Append(writes, [i |-> pixel_i, j |-> pixel_j, index |-> k,
                                value |-> PixelValue(tr),
                                primary_hit |-> PrimaryHit])
  /\ generator' = IF ZeroDivisor THEN generator
                  ELSE tr.generator % Len(RandomStream)
  /\ div_by_zero' = (div_by_zero \/ ZeroDivisor)

\* variant: the loops count as over after the first row
LoopsDoneAfterRow == pixel_j >= 1 \/ pixel_j >= height_ \/ width_ = 0

\* both loop conditions have failed
LoopsDone == pixel_j >= height_ \/ width_ = 0

\* one iteration of the loops over j and i
RenderPixel ==
  /\ pc = "render_loop"
  /\ ~LoopsDone
  /\ RenderPixelWith(PixelIndex(pixel_i, pixel_j),
       IF ZeroDivisor THEN Traced(Black, generator)
       ELSE SampleLoop(0,
              PixelStart(IF PixelIndex(pixel_i, pixel_j) < Len(image_data_)
                         THEN image_data_[PixelIndex(pixel_i, pixel_j) + 1]
                         ELSE Uninitialized),
              generator))
  /\ pixel_i' = IF pixel_i + 1 < width_ THEN pixel_i + 1 ELSE 0
  /\ pixel_j' = IF pixel_i + 1 < width_ THEN pixel_j ELSE pixel_j + 1
  /\ UNCHANGED <<objects_, ray, hitVars, record, traceVars, colorVars,
                 frameVars, pc,
                 width_, height_, samples_per_pixel_, gamma_, fov_, aperture_,
                 is_playing_, renders, first_data, first_start, last_start,
                 image_, camera, return_to, uploads, undefined_cast>>

\* the loops are over: image_->SetData(image_data_) and return
RenderEnd ==
  /\ pc = "render_loop"
  /\ LoopsDone
  /\ uploads' = Append(uploads, [written |-> Len(writes),
                                  data |-> image_data_])
  /\ pc' = return_to
  /\ first_data' = IF renders = 1 THEN image_data_ ELSE first_data
  /\ UNCHANGED <<objects_, ray, hitVars, record, traceVars, colorVars,
                 frameVars, width_,
                 height_, samples_per_pixel_, gamma_, fov_, aperture_,
                 is_playing_, image_data_, pixel_i, pixel_j, generator,
                 renders, writes, div_by_zero, first_start, last_start,
                 image_, camera, return_to, undefined_cast>>

---------------------------------------------------------------------------
(* Scene::OnUIRender, one frame per step, Render running in between *)

\* the settings as the input widgets leave them, edit being the field the
\* user typed into this frame and the value typed
Edited(edit) ==
  [samples |-> IF edit.field = "samples" THEN edit.value
               ELSE samples_per_pixel_,
   bounce |-> IF edit.field = "bounce" THEN edit.value ELSE bounce_limit_,
   gamma |-> IF edit.field = "gamma" THEN edit.value ELSE gamma_,
   fov |-> IF edit.field = "fov" THEN edit.value ELSE fov_,
   aperture |-> IF edit.field = "aperture" THEN edit.value ELSE aperture_]

\* variant: only the sample count is clamped
ClampedSamplesOnly(s) ==
  [s EXCEPT !.samples = IF s.samples < 1 THEN 1 ELSE s.samples]

\* the five clamps that follow the input widgets
Clamped(s) ==
  [samples |-> IF s.samples < 1 THEN 1 ELSE s.samples,
   bounce |-> IF s.bounce < 0 THEN 0 ELSE s.bounce,
   gamma |-> IF s.gamma < 0 THEN 0 ELSE s.gamma,
   fov |-> IF s.fov < 0 THEN 0 ELSE s.fov,
   aperture |-> IF s.aperture < 0 THEN 0 ELSE s.aperture]

\* the settings s become the members
Stored(s) ==
  /\ samples_per_pixel_' = s.samples
  /\ bounce_limit_' = s.bounce
  /\ gamma_' = s.gamma
  /\ fov_' = s.fov
  /\ aperture_' = s.aperture

\* if (ImGui::Button(play_button_label_)) is_playing_ = !is_playing_
Toggled(play) == IF play THEN ~is_playing_ ELSE is_playing_

\* a frame in which the content region is region, the user made the edit,
\* and pressed Test and the play button as told; it runs up to its first
\* Render call or to its end
OnUIRenderWith(region, edit, test, play) ==
  /\ pc = "ui"
  /\ renders < MaxRenders
  /\ width_' = region[1]
  /\ height_' = region[2]
  /\ Stored(Clamped(Edited(edit)))
  /\ is_playing_' = IF test THEN is_playing_ ELSE Toggled(play)
  /\ pc' = IF test \/ Toggled(play) THEN "render" ELSE "ui"
  /\ return_to' = IF test THEN "after_test" ELSE "ui"
  /\ UNCHANGED <<objects_, ray, hitVars, record, bounce, attenuation,
                 scattered, scatter_ok, stack, result, hits, scatters, loop,
                 colorVars,
                 frameVars, image_data_, pixel_i, pixel_j, generator, renders,
                 writes, div_by_zero, first_data, first_start, last_start,
                 image_, camera, uploads, undefined_cast>>

\* the content regions ImGui reports
RegionSet == {<<0, 0>>, <<2, 0>>, <<1, 2>>, <<2, 1>>, <<2, 2>>}

NoEdit == [field |-> "none", value |-> 0]

\* what the user types into one field
EditSet ==
  {NoEdit} \cup
  {[field |-> "samples", value |-> v] : v \in {0, 2}} \cup
  {[field |-> "bounce", value |-> v] : v \in {-1, 1}} \cup
  {[field |-> "gamma", value |-> v] : v \in {-SCALE, SCALE}} \cup
  {[field |-> "fov", value |-> v] : v \in {-90, 90}} \cup
  {[field |-> "aperture", value |-> v] : v \in {-100}}

OnUIRender ==
  \E region \in RegionSet, edit \in EditSet, test \in BOOLEAN,
     play \in BOOLEAN :
    OnUIRenderWith(region, edit, test, play)

\* the rest of the frame after the Render call of the Test button
OnUIRenderResume ==
  /\ pc = "after_test"
  /\ \E play \in BOOLEAN :
       /\ (Toggled(play) => renders < MaxRenders)
       /\ is_playing_' = Toggled(play)
       /\ pc' = IF Toggled(play) THEN "render" ELSE "ui"
  /\ return_to' = "ui"
  /\ UNCHANGED <<objects_, ray, hitVars, record, traceVars, colorVars,
                 frameVars, width_,
                 height_, samples_per_pixel_, gamma_, fov_, aperture_,
                 image_data_, pixel_i, pixel_j, generator, renders, writes,
                 div_by_zero, first_data, first_start, last_start, image_,
                 camera, uploads, undefined_cast>>

\* the world Render builds, without the ground sphere of radius 100, which
\* is beyond the range of the fixed-point products
RenderWorld ==
  << Sphere(<<0, 0, -SCALE>>, 500, 1),
     Sphere(<<-SCALE, 0, -SCALE>>, 500, 2),
     Sphere(<<SCALE, 0, -SCALE>>, -400, 4),
     Sphere(<<SCALE, 0, -SCALE>>, 500, 4) >>

\* the Scene as constructed, the first frame about to run
InitUI ==
  /\ FrameIdle
  /\ SceneConstructed
  /\ undefined_cast \in UndefinedUint32Set
  /\ ColorIdle
  /\ objects_ = RenderWorld
  /\ ray = Ray(<<0, 0, 0>>, <<0, 0, -SCALE>>)
  /\ t_min = 0
  /\ t_max = 0
  /\ closest_so_far = 0
  /\ temp_record = ZeroRecord
  /\ hit_anything = FALSE
  /\ idx = 1
  /\ record = ZeroRecord
  /\ TraceIdle
  /\ pc = "ui"

NextUI ==
  \/ OnUIRender
  \/ OnUIRenderResume
  \/ RenderBegin
  \/ RenderPixel
  \/ RenderEnd

SpecUI == InitUI /\ [][NextUI]_vars

---------------------------------------------------------------------------
(* Render called frame after frame while playing, on frames of two or more
   rows and columns *)

MaxWidth == 3

\* one Lambertian sphere of radius 0.5 at (0, 0, -1), albedo (0.5, 0.5, 0.5)
LambertianWorld == << Sphere(<<0, 0, -SCALE>>, 500, 6) >>

\* a frame that is playing is about to call Render for the first time; no
\* conversion to uint32_t is out of range for these settings, so that
\* undefined_cast is never read
InitRender ==
  /\ FrameIdle
  /\ ColorIdle
  /\ objects_ \in {RenderWorld, LambertianWorld}
  /\ ray = Ray(<<0, 0, 0>>, <<0, 0, -SCALE>>)
  /\ t_min = 0
  /\ t_max = 0
  /\ closest_so_far = 0
  /\ temp_record = ZeroRecord
  /\ hit_anything = FALSE
  /\ idx = 1
  /\ record = ZeroRecord
  /\ bounce = 0
  /\ bounce_limit_ \in 1..2
  /\ attenuation = <<0, 0, 0>>
  /\ scattered = Ray(<<0, 0, 0>>, <<0, 0, 0>>)
  /\ scatter_ok = FALSE
  /\ stack = <<>>
  /\ result = <<0, 0, 0>>
  /\ hits = 0
  /\ scatters = 0
  /\ loop = LoopStart
  /\ width_ \in 2..MaxWidth
  /\ height_ \in 2..MaxWidth
  /\ samples_per_pixel_ \in 1..MaxSamples
  /\ gamma_ \in {500, SCALE}
  /\ fov_ = 90
  /\ aperture_ \in {0, 100}
  /\ is_playing_ = TRUE
  /\ image_data_ = <<>>
  /\ pixel_i = 0
  /\ pixel_j = 0
  /\ generator \in 0..(Len(RandomStream) - 1)
  /\ renders = 0
  /\ writes = <<>>
  /\ div_by_zero = FALSE
  /\ first_data = <<>>
  /\ first_start = 0
  /\ last_start = 0
  /\ image_ = <<>>
  /\ camera = <<>>
  /\ return_to = "ui"
  /\ uploads = <<>>
  /\ undefined_cast = 0
  /\ pc = "render"

\* a frame without input while playing: it runs up to its Render call
PlayFrame == OnUIRenderWith(<<width_, height_>>, NoEdit, FALSE, FALSE)

\* the engine is put back into the state it had before the first Render, as
\* when the program is started again (static std::mt19937 generator{})
Reseed ==
  /\ pc = "ui"
  /\ renders >= 1
  /\ renders < MaxRenders
  /\ generator # first_start
  /\ generator' = first_start
  /\ UNCHANGED <<objects_, ray, hitVars, record, traceVars, colorVars,
                 frameVars, pc,
                 width_, height_, samples_per_pixel_, gamma_, fov_, aperture_,
                 is_playing_, image_data_, pixel_i, pixel_j, renders, writes,
                 div_by_zero, first_data, first_start, last_start, image_,
                 camera, return_to, uploads, undefined_cast>>

NextRender ==
  \/ RenderBegin
  \/ RenderPixel
  \/ RenderEnd
  \/ PlayFrame
  \/ Reseed

SpecRender == InitRender /\ [][NextRender]_vars

---------------------------------------------------------------------------
(* Application::Run and Application::DrawFrame: the frame loop and its
   in-flight fences.  The ImGui calls of DrawFrame and layer_->OnUIRender()
   (modelled above) touch neither the sync objects nor current_frame_. *)

MAX_FRAMES_IN_FLIGHT == 2

\* DrawFrame calls a run makes
MaxDraws == 6

\* the frame slots, in_flight_fences_[k - 1] being slot k
FrameSlots == 1..MAX_FRAMES_IN_FLIGHT

\* the VkResult values the frame loop distinguishes; VK_ERROR_DEVICE_LOST
\* stands for every other error
VkResults ==
  {"VK_SUCCESS", "VK_SUBOPTIMAL_KHR", "VK_ERROR_OUT_OF_DATE_KHR",
   "VK_ERROR_DEVICE_LOST"}

\* the slot of the current frame
CurrentSlot == current_frame_ + 1

\* no work is in the queue
NoWork == [k \in FrameSlots |-> FALSE]

\* vkResetFences(device_, 1, &in_flight_fences_[current_frame_])
ResetFences(fences, k) == [fences EXCEPT ![k] = FALSE]

\* vkQueueSubmit(..., in_flight_fences_[current_frame_]): the work of slot k
\* is in the queue
QueueSubmit(work, k) == [work EXCEPT ![k] = TRUE]

\* vkDeviceWaitIdle: all submitted work has completed and signaled its fence
DeviceWaitIdle(fences, work) == [k \in FrameSlots |-> fences[k] \/ work[k]]

\* current_frame_ = (current_frame_ + 1) % MAX_FRAMES_IN_FLIGHT
NextFrame(f) == (f + 1) % MAX_FRAMES_IN_FLIGHT

\* the presentation makes DrawFrame recreate the swap chain
MustRecreate(present, resized) ==
  present \in {"VK_ERROR_OUT_OF_DATE_KHR", "VK_SUBOPTIMAL_KHR"} \/ resized

\* the Application after its constructor: CreateSyncObjects creates every
\* fence signaled
InitFrame ==
  /\ in_flight_fences_ = [k \in FrameSlots |-> TRUE]
  /\ submitted = NoWork
  /\ current_frame_ = 0
  /\ framebuffer_resized_ = FALSE
  /\ draws = 0
  /\ completed = 0
  /\ swap_chains = 0
  /\ pc = "frame"
  /\ objects_ = <<>>
  /\ ray = Ray(<<0, 0, 0>>, <<0, 0, -SCALE>>)
  /\ t_min = 0
  /\ t_max = 0
  /\ closest_so_far = 0
  /\ temp_record = ZeroRecord
  /\ hit_anything = FALSE
  /\ idx = 1
  /\ record = ZeroRecord
  /\ TraceIdle
  /\ RenderIdle
  /\ ColorIdle

\* variant: the fence is reset right after the wait, before the image is
\* acquired
AcquireOutOfDateAfterReset ==
  /\ in_flight_fences_'
       = DeviceWaitIdle(ResetFences(in_flight_fences_, CurrentSlot), submitted)
  /\ submitted' = NoWork
  /\ swap_chains' = swap_chains + 1
  /\ UNCHANGED <<current_frame_, completed, pc>>

\* if (VK_ERROR_OUT_OF_DATE_KHR == result) { RecreateSwapChain(); return; }
AcquireOutOfDate ==
  /\ in_flight_fences_' = DeviceWaitIdle(in_flight_fences_, submitted)
  /\ submitted' = NoWork
  /\ swap_chains' = swap_chains + 1
  /\ UNCHANGED <<current_frame_, completed, pc>>

\* vkAcquireNextImageKHR failed otherwise: throw std::runtime_error
AcquireFailed ==
  /\ pc' = "thrown"
  /\ UNCHANGED <<in_flight_fences_, submitted, current_frame_, completed,
                 swap_chains>>

\* vkQueueSubmit failed after the fence was reset: CheckVulkanResult throws
SubmitFailed ==
  /\ in_flight_fences_' = ResetFences(in_flight_fences_, CurrentSlot)
  /\ pc' = "thrown"
  /\ UNCHANGED <<submitted, current_frame_, completed, swap_chains>>

\* the fence is reset, the work submitted and the image presented
Presented(present) ==
  IF MustRecreate(present, framebuffer_resized_)
  THEN /\ in_flight_fences_'
            = DeviceWaitIdle(ResetFences(in_flight_fences_, CurrentSlot),
                             QueueSubmit(submitted, CurrentSlot))
       /\ submitted' = NoWork
       /\ swap_chains' = swap_chains + 1
       /\ current_frame_' = NextFrame(current_frame_)
       /\ completed' = completed + 1
       /\ pc' = pc
  ELSE /\ in_flight_fences_' = ResetFences(in_flight_fences_, CurrentSlot)
       /\ submitted' = QueueSubmit(submitted, CurrentSlot)
       /\ swap_chains' = swap_chains
       /\ IF present = "VK_SUCCESS"
          THEN /\ current_frame_' = NextFrame(current_frame_)
               /\ completed' = completed + 1
               /\ pc' = pc
          ELSE /\ current_frame_' = current_frame_
               /\ completed' = completed
               /\ pc' = "thrown"

\* DrawFrame after its wait, for the results of vkAcquireNextImageKHR,
\* vkQueueSubmit and vkQueuePresentKHR
DrawFrameWith(acquire, submit, present) ==
  IF acquire = "VK_ERROR_OUT_OF_DATE_KHR" THEN AcquireOutOfDate
  ELSE IF acquire \notin {"VK_SUCCESS", "VK_SUBOPTIMAL_KHR"}
       THEN AcquireFailed
       ELSE IF submit # "VK_SUCCESS" THEN SubmitFailed
            ELSE Presented(present)

\* Run calls DrawFrame; vkWaitForFences returns when the fence of the current
\* frame is signaled
DrawFrame ==
  /\ pc = "frame"
  /\ draws < MaxDraws
  /\ in_flight_fences_[CurrentSlot]
  /\ \E acquire \in VkResults, present \in VkResults :
       \E submit \in {"VK_SUCCESS", "VK_ERROR_DEVICE_LOST"} :
         DrawFrameWith(acquire, submit, present)
  /\ draws' = draws + 1
  /\ UNCHANGED <<objects_, ray, hitVars, record, traceVars, renderVars,
                 colorVars, framebuffer_resized_>>

\* the graphics queue finishes the work of a slot and signals its fence
QueueComplete ==
  /\ \E k \in FrameSlots :
       /\ submitted[k]
       /\ in_flight_fences_' = [in_flight_fences_ EXCEPT ![k] = TRUE]
       /\ submitted' = [submitted EXCEPT ![k] = FALSE]
  /\ UNCHANGED <<objects_, ray, hitVars, record, traceVars, renderVars,
                 colorVars, pc, current_frame_, framebuffer_resized_, draws,
                 completed, swap_chains>>

\* glfwPollEvents delivers a resize: Utils::FramebufferResizeCallback calls
\* SetFramebufferResized(true)
SetFramebufferResized ==
  /\ pc = "frame"
  /\ framebuffer_resized_' = TRUE
  /\ UNCHANGED <<objects_, ray, hitVars, record, traceVars, renderVars,
                 colorVars, pc, in_flight_fences_, submitted, current_frame_,
                 draws, completed, swap_chains>>

\* glfwWindowShouldClose: Run leaves its loop and waits for the device
RunEnd ==
  /\ pc = "frame"
  /\ pc' = "closed"
  /\ in_flight_fences_' = DeviceWaitIdle(in_flight_fences_, submitted)
  /\ submitted' = NoWork
  /\ UNCHANGED <<objects_, ray, hitVars, record, traceVars, renderVars,
                 colorVars, current_frame_, framebuffer_resized_, draws,
                 completed, swap_chains>>

NextFrameLoop ==
  \/ DrawFrame
  \/ QueueComplete
  \/ SetFramebufferResized
  \/ RunEnd

SpecFrame == InitFrame /\ [][NextFrameLoop]_vars

---------------------------------------------------------------------------
(* Properties of the intersection queries, checked under SpecHit *)

\* a child queried alone with the fixed interval [t_min, t_max]
Alone(k) == SphereHit(objects_[k], ray, t_min, t_max, ZeroRecord)

AloneHits == {k \in 1..Len(objects_) : Alone(k).hit}

InInterval(t) == t_min <= t /\ t <= t_max

\* the first child has been queried, with the interval [t_min, t_max]
FirstQueried == idx = 2

\* C1: HittableList::Hit returns true iff some child, queried alone with the
\* fixed interval [t_min, t_max], reports a hit, and then record.t is the
\* minimum of the t values those children report; otherwise it returns false.
C1_NearestHit ==
  pc = "hit_done" =>
    /\ hit_anything = (AloneHits # {})
    /\ hit_anything =>
         /\ \E k \in AloneHits : record.t = Alone(k).rec.t
         /\ \A k \in AloneHits : record.t <= Alone(k).rec.t

\* two children hit at different parameters and the nearer one comes first,
\* so the later child is rejected by the narrowed bound only
C1_Witness ==
  /\ pc = "hit_done"
  /\ hit_anything
  /\ \E j, k \in AloneHits : j < k /\ Alone(j).rec.t < Alone(k).rec.t

\* C2: Sphere::Hit misses on a negative discriminant; otherwise it reports the
\* smaller root if that lies in [t_min, t_max], else the larger root if that
\* lies in [t_min, t_max], else a miss.  A reported t lies in [t_min, t_max]
\* and is the larger root only when the smaller one is outside the interval.
C2_RootSelection ==
  FirstQueried =>
    LET s == objects_[1]
        t == temp_record.t
    IN  /\ Discriminant(s, ray) < 0 => ~hit_anything
        /\ Discriminant(s, ray) >= 0 =>
             IF InInterval(SmallRoot(s, ray))
             THEN hit_anything /\ t = SmallRoot(s, ray)
             ELSE IF InInterval(LargeRoot(s, ray))
                  THEN hit_anything /\ t = LargeRoot(s, ray)
                  ELSE ~hit_anything
        /\ hit_anything => InInterval(t)
        /\ (hit_anything /\ t # SmallRoot(s, ray)) =>
             ~InInterval(SmallRoot(s, ray))

\* the larger root is reported because the smaller one is below t_min
C2_Witness ==
  /\ FirstQueried
  /\ hit_anything
  /\ Discriminant(objects_[1], ray) > 0
  /\ SmallRoot(objects_[1], ray) < t_min
  /\ temp_record.t = LargeRoot(objects_[1], ray)

\* |origin - center|^2 > radius^2, exact on the whole-number inputs
OriginOutside(s, r) ==
  LET oc == VSub(r.origin, s.center_)
  IN  oc[1] * oc[1] + oc[2] * oc[2] + oc[3] * oc[3] > s.radius_ * s.radius_

\* 0.005
Tolerance == SCALE \div 200

\* C3: for a ray whose origin is strictly outside the sphere, a reported hit
\* at t has record.point = origin + t * direction and that point lies on the
\* sphere: | |point - center| - |radius| | is within the tolerance.
C3_PointOnSurface ==
  (FirstQueried /\ hit_anything /\ OriginOutside(objects_[1], ray)) =>
    LET s == objects_[1]
        p == temp_record.point
        t == temp_record.t
    IN  /\ p = <<ray.origin[1] + FMul(t, ray.direction[1]),
                 ray.origin[2] + FMul(t, ray.direction[2]),
                 ray.origin[3] + FMul(t, ray.direction[3])>>
        /\ Abs(Length(VSub(p, s.center_)) - Abs(s.radius_)) <= Tolerance

\* a hit from outside at a parameter that is not a whole number
C3_Witness ==
  /\ FirstQueried
  /\ hit_anything
  /\ OriginOutside(objects_[1], ray)
  /\ temp_record.t % SCALE # 0
  /\ ray.direction[1] # 0

\* C4: after SetFaceNormal, front_face is true iff
\* dot(ray.direction, outward_normal) < 0, normal is outward_normal when
\* front_face and -outward_normal otherwise, and dot(ray.direction, normal)
\* <= 0 in every record a sphere produced.
C4_FaceNormal ==
  /\ hit_anything => Dot(ray.direction, record.normal) <= 0
  /\ (FirstQueried /\ hit_anything) =>
       LET on == OutwardNormal(objects_[1], temp_record.point)
       IN  /\ temp_record.front_face = (Dot(ray.direction, on) < 0)
           /\ temp_record.normal =
                (IF temp_record.front_face THEN on ELSE VNeg(on))

\* a hit from the inside: the outward normal points along the ray
C4_Witness ==
  /\ FirstQueried
  /\ hit_anything
  /\ ~temp_record.front_face
  /\ Dot(ray.direction, OutwardNormal(objects_[1], temp_record.point)) > 0

---------------------------------------------------------------------------
(* Properties of Scene::RayColor, checked under Spec *)

\* child k queried alone with the interval RayColor passes
AloneInWorld(k) == SphereHit(objects_[k], ray, T_MIN, INFINITY_F, ZeroRecord)

\* the frame holds the record of a hit and has not returned
HoldsHit == pc \in {"scatter", "scattered"}

C6_BlackAtBounceLimit ==
  [][(pc = "call" /\ bounce <= 0) =>
       /\ pc' = "ret"
       /\ result' = <<0, 0, 0>>
       /\ hits' = hits
       /\ scatters' = scatters
       /\ UNCHANGED hitVars]_vars

\* a nested call ran out of budget and returned black
C6_Witness ==
  /\ pc = "ret"
  /\ bounce <= 0
  /\ stack # <<>>
  /\ hits > 0
  /\ result = <<0, 0, 0>>

\* C7: on a hit with positive budget, a material that declines to scatter
\* makes the result black; one that scatters with attenuation A and ray S
\* makes it the component-wise product of A and RayColor(S, budget - 1); the
\* scene is queried with t_min = 0.001 and t_max = +infinity.
C7_HitColor ==
  [][/\ (pc = "call" /\ hits' # hits) =>
          (t_min' = SCALE \div 1000 /\ t_max' = INFINITY_F /\ bounce > 0)
     /\ (pc = "scattered" /\ ~scatter_ok) =>
          (pc' = "ret" /\ result' = <<0, 0, 0>>)
     /\ (pc = "scattered" /\ scatter_ok) =>
          /\ pc' = "call"
          /\ ray' = scattered
          /\ bounce' = bounce - 1
          /\ Len(stack') = Len(stack) + 1
          /\ Head(stack').attenuation = attenuation
     /\ (pc = "ret" /\ stack # <<>>) =>
          /\ pc' = "ret"
          /\ stack' = Tail(stack)
          /\ result' = <<FMul(Head(stack).attenuation[1], result[1]),
                         FMul(Head(stack).attenuation[2], result[2]),
                         FMul(Head(stack).attenuation[3], result[3])>>]_vars

\* the top-level call returned a colour tinted by two bounces
C7_Witness ==
  /\ Done
  /\ scatters = 2
  /\ hits = 3
  /\ result # <<0, 0, 0>>
  /\ result[1] < result[3]

\* C8: a ray that hits nothing (positive budget) gets the sky gradient
\* (1-t)*(1,1,1) + t*(0.5,0.7,1.0) with t = 0.5*(normalize(direction).y + 1):
\* white at t = 0, (0.5,0.7,1.0) at t = 1, whatever the budget is.
C8_SkyGradient ==
  [][(pc = "call" /\ hits' # hits /\ ~hit_anything') =>
       LET y == FDiv(ray.direction[2], Length(ray.direction))
           t == FMul(SCALE \div 2, y + SCALE)
           w == FMul(SCALE - t, SCALE)
       IN  /\ pc' = "ret"
           /\ result' = <<w + FMul(t, SCALE \div 2),
                          w + FMul(t, (7 * SCALE) \div 10),
                          w + FMul(t, SCALE)>>
           /\ t = 0 => result' = <<SCALE, SCALE, SCALE>>
           /\ t = SCALE =>
                result' = <<SCALE \div 2, (7 * SCALE) \div 10, SCALE>>]_vars

\* a ray pointing straight down missed everything and came back white
C8_Witness ==
  /\ pc = "ret"
  /\ hits = 1
  /\ ~hit_anything
  /\ bounce > 0
  /\ ray.direction[1] = 0 /\ ray.direction[3] = 0 /\ ray.direction[2] < 0
  /\ result = <<SCALE, SCALE, SCALE>>

\* every recursive call took exactly one unit of budget, and the queries and
\* scatter calls of the top-level call are within the bounce limit
PathBounded ==
  /\ bounce >= 0
  /\ bounce + Len(stack) = bounce_limit_
  /\ hits <= bounce_limit_
  /\ scatters <= bounce_limit_

\* a natural number that every step of the call makes smaller: the suspended
\* frames while returning, else the budget and the position in the frame
Rank ==
  IF pc = "ret" THEN Len(stack)
  ELSE bounce_limit_ + 1 + 3 * bounce
         + (IF pc = "call" THEN 2 ELSE IF pc = "scatter" THEN 1 ELSE 0)

\* C9: RayColor terminates (every step lowers the natural number Rank), each
\* recursive call has the budget decreased by exactly 1, and a top-level call
\* with bounce limit n makes at most n scene.Hit queries and at most n
\* Scatter calls.
C9_BoundedPath ==
  /\ PathBounded
  /\ [][PathBounded' /\ Rank' >= 0 /\ Rank' < Rank]_vars

\* every bounce scattered: the budget ran out at the deepest call
C9_Witness ==
  /\ pc = "ret"
  /\ bounce = 0
  /\ bounce_limit_ = MaxBounce
  /\ Len(stack) = bounce_limit_
  /\ hits = bounce_limit_
  /\ scatters = bounce_limit_

\* C10: Lambertian::Scatter returns true with the attenuation equal to the
\* albedo and a scattered ray that starts at the hit point.
C10_LambertianAlwaysScatters ==
  (pc = "scattered" /\ Materials[record.material].kind = "Lambertian") =>
    /\ scatter_ok
    /\ attenuation = Materials[record.material].albedo_
    /\ scattered.origin = record.point

\* a Lambertian sphere scattered a ray at a point away from the ray's origin
C10_Witness ==
  /\ pc = "scattered"
  /\ Materials[record.material].kind = "Lambertian"
  /\ scatter_ok
  /\ record.point # ray.origin
  /\ scattered.origin = record.point
  /\ attenuation = <<100, 200, 500>>

---------------------------------------------------------------------------
(* Properties of the materials, checked under SpecScatter *)

\* the material of the record Scatter was called through
HitMaterial == Materials[record.material]

\* Scatter has returned for a material of the given kind
ScatterReturned(kind) == pc = "scattered" /\ HitMaterial.kind = kind

\* glm::normalize(ray.GetDirection())
UnitDirection == Normalize(ray.direction)

\* C11: Metal::Scatter sets attenuation to the albedo and the scattered
\* direction to reflect(normalize(incoming), normal) + fuzz * (a point of the
\* unit sphere), and returns true iff dot(scattered.direction, normal) > 0;
\* with fuzz = 0 and a record obeying the face-normal convention it absorbs
\* exactly when the incoming direction is perpendicular to the normal.
C11_MetalScatter ==
  ScatterReturned("Metal") =>
    /\ attenuation = HitMaterial.albedo_
    /\ scattered.origin = record.point
    /\ \E p \in RandomInUnitSphereSet :
         scattered.direction =
           VAdd(VSub(UnitDirection,
                     VScale(2 * Dot(record.normal, UnitDirection),
                            record.normal)),
                VScale(HitMaterial.fuzz_, p))
    /\ scatter_ok = (Dot(scattered.direction, record.normal) > 0)
    /\ HitMaterial.fuzz_ = 0 =>
         (~scatter_ok <=> Dot(UnitDirection, record.normal) = 0)

\* a tangent hit on a mirror (fuzz 0): the reflection runs along the surface
\* and the ray is absorbed
C11_Witness ==
  /\ ScatterReturned("Metal")
  /\ HitMaterial.fuzz_ = 0
  /\ ~scatter_ok
  /\ Dot(UnitDirection, record.normal) = 0

\* the refraction ratio the claim names: 1/index entering, index leaving
ClaimedRatio ==
  IF record.front_face THEN FDiv(SCALE, HitMaterial.refraction_index_)
  ELSE HitMaterial.refraction_index_

\* refraction_ratio * sin_theta > 1
TotalInternalReflection ==
  FMul(ClaimedRatio,
       FSqrt(SCALE - FMul(CosTheta(UnitDirection, record.normal),
                          CosTheta(UnitDirection, record.normal)))) > SCALE

\* the Schlick reflectance R(cos_theta, refraction_ratio)
ClaimedReflectance ==
  Reflectance(CosTheta(UnitDirection, record.normal), ClaimedRatio)

\* C12: Dielectric::Scatter always returns true with attenuation (1,1,1); with
\* refraction_ratio = front_face ? 1/refraction_index : refraction_index it
\* reflects iff refraction_ratio * sin_theta > 1 or the uniform draw is less
\* than the Schlick reflectance, and refracts in every other case.
C12_DielectricScatter ==
  ScatterReturned("Dielectric") =>
    /\ scatter_ok
    /\ attenuation = <<SCALE, SCALE, SCALE>>
    /\ scattered.origin = record.point
    /\ \E f \in RandomFloatSet :
         scattered.direction =
           (IF TotalInternalReflection \/ f < ClaimedReflectance
            THEN Reflect(UnitDirection, record.normal)
            ELSE Refract(UnitDirection, record.normal, ClaimedRatio))

\* leaving glass (index 1.5) at a flat angle: reflected by total internal
\* reflection, the direction differing from the refracted one
C12_Witness ==
  /\ ScatterReturned("Dielectric")
  /\ ~record.front_face
  /\ HitMaterial.refraction_index_ > SCALE
  /\ TotalInternalReflection
  /\ scattered.direction = Reflect(UnitDirection, record.normal)
  /\ scattered.direction # Refract(UnitDirection, record.normal, ClaimedRatio)

\* u and v agree in every component up to the rounding tolerance
Near(u, v) == \A i \in 1..3 : Abs(u[i] - v[i]) <= Tolerance

\* C13: a Dielectric with refraction_index = 1.0 scatters, for any entry angle
\* and any random draw, a ray colinear with the incoming one: the reflect
\* branch is never taken when the refraction ratio is 1.
C13_NoBendingAtIndexOne ==
  (ScatterReturned("Dielectric") /\ HitMaterial.refraction_index_ = SCALE) =>
    Near(scattered.direction, UnitDirection)

---------------------------------------------------------------------------
(* Properties of Utils::GetColor, checked under SpecColor *)

IsByte(v) == 0 <= v /\ v <= 255

\* C15: for every accumulated color, every samples_per_pixel >= 1 and every
\* gamma >= 0, each of R, G, B that GetColor computes is an integer in
\* [0, 255], so no channel spills into a neighbouring byte of the pixel.
C15_ChannelsAreBytes ==
  pc = "color_done" => \A c \in 1..3 : IsByte(channels[c])

---------------------------------------------------------------------------
(* Properties of Render, checked under SpecRender *)

\* the Render call returned
RenderReturned == pc = "ui" /\ renders >= 1

\* the indices written so far by the running Render call
WrittenIndices == {writes[n].index : n \in 1..Len(writes)}

\* C14: one Render call of a width x height frame writes the value of pixel
\* (i, j) to index j * width + i, inside the buffer, no index twice, and when
\* it returns it has written every index of [0, width * height) exactly once
\* and the buffer holds the written values
C14_RowMajorOnce ==
  /\ Len(image_data_) \in {0, width_ * height_}
  /\ \A n \in 1..Len(writes) :
       /\ writes[n].index = writes[n].j * width_ + writes[n].i
       /\ writes[n].index >= 0
       /\ writes[n].index < width_ * height_
       /\ writes[n].index < Len(image_data_)
       /\ \A m \in 1..Len(writes) :
            writes[m].index = writes[n].index => m = n
  /\ RenderReturned =>
       /\ Len(writes) = width_ * height_
       /\ WrittenIndices = 0..(width_ * height_ - 1)
       /\ \A n \in 1..Len(writes) :
            image_data_[writes[n].index + 1] = writes[n].value
       /\ \A k \in 1..Len(image_data_) : image_data_[k] # Uninitialized

\* a Render call of a frame that is not square returned
C14_Witness ==
  /\ RenderReturned
  /\ width_ = 2
  /\ height_ = 3
  /\ Len(writes) = 6
  /\ writes[4].i = 1
  /\ writes[4].j = 1
  /\ writes[4].index = 3

\* a Render call after the first returned, having begun in the engine state
\* in which the first began
RenderedAgainReseeded ==
  /\ pc = "ui"
  /\ renders >= 2
  /\ last_start = first_start

OneBounceOneSample ==
  /\ objects_ = LambertianWorld
  /\ bounce_limit_ = 1
  /\ samples_per_pixel_ = 1

\* the packed pixel p is darker than q: no colour byte above q's, and less
\* in sum
Darker(p, q) ==
  /\ \A c \in 1..3 : p[c] <= q[c]
  /\ p[1] + p[2] + p[3] < q[1] + q[2] + q[3]

---------------------------------------------------------------------------
(* Properties of the settings panel and of Render's boundary, checked under
   SpecUI *)

\* OnUIRender is calling Render, or Render is running
RenderInvoked == pc \in {"render", "render_loop"}

\* C20: in every state in which OnUIRender invokes Render, whatever was typed
\* into the settings panel, samples_per_pixel_ >= 1, bounce_limit_ >= 0,
\* gamma_ >= 0, fov_ >= 0 and aperture_ >= 0
C20_SettingsInRange ==
  RenderInvoked =>
    /\ samples_per_pixel_ >= 1
    /\ bounce_limit_ >= 0
    /\ gamma_ >= 0
    /\ fov_ >= 0
    /\ aperture_ >= 0

\* Render is invoked by the Test button with a gamma and a field of view that
\* only the clamps produce (negative values were typed)
C20_Witness ==
  /\ pc = "render"
  /\ return_to = "after_test"
  /\ gamma_ = 0
  /\ fov_ = 0
  /\ samples_per_pixel_ = 1

\* the configuration Render is asked to render is invalid: fewer than one
\* sample, or a width or height of 0 or 1
InvalidConfiguration ==
  \/ samples_per_pixel_ < 1
  \/ width_ < 2
  \/ height_ < 2

\* Render went past its boundary: it is in its loops, or it was ended by the
\* division width_ / height_
RenderRunning == pc \in {"render_loop", "trapped"}

\* C17: a Render request with an invalid configuration is rejected at the
\* boundary: Render does not go on to render, writes no pixel and performs
\* no division by zero
C17_InvalidRejected ==
  /\ InvalidConfiguration => ~RenderRunning
  /\ (InvalidConfiguration /\ RenderRunning) =>
       (writes = <<>> /\ ~div_by_zero)

\* the image is missing or its recorded size is not the requested one
SizeDiffers ==
  \/ image_ = <<>>
  \/ image_.width # width_
  \/ image_.height # height_

\* a buffer of width_ * height_ elements none of which was written
FreshBuffer == [k \in 1..(width_ * height_) |-> Uninitialized]

\* C21: when the pixel loop of a Render call starts, and while it runs,
\* image_data_ holds exactly width_ * height_ entries and the image's recorded
\* width and height are width_ and height_; a Render call allocates a new
\* image and buffer exactly when the image is missing or its size differs,
\* and otherwise keeps both as they are
C21_BufferMatchesResolution ==
  /\ [](pc = "render_loop" =>
          /\ Len(image_data_) = width_ * height_
          /\ image_ = [width |-> width_, height |-> height_])
  /\ [][(pc = "render" /\ pc' # "render") =>
          IF SizeDiffers
          THEN /\ image_' = [width |-> width_, height |-> height_]
               /\ image_data_' = FreshBuffer
          ELSE /\ image_' = image_
               /\ image_data_' = image_data_]_vars

\* a second Render call runs on a frame of another size than the first, its
\* buffer allocated anew
C21_Witness ==
  /\ pc = "render_loop"
  /\ renders = 2
  /\ writes = <<>>
  /\ width_ = 2
  /\ height_ = 2
  /\ Len(first_data) = 2
  /\ image_data_ = FreshBuffer

\* a second Render call reuses the buffer of the first
C21_WitnessReuse ==
  /\ pc = "render_loop"
  /\ renders = 2
  /\ writes = <<>>
  /\ width_ = 2
  /\ height_ = 2
  /\ image_data_ = first_data
  /\ image_data_ # FreshBuffer

\* C22: within one Render call the buffer is handed to the image (SetData)
\* at most once, never while the pixel loops run, and when it is handed over
\* every pixel of the frame has been written and the data is the finished
\* buffer; while a Render call runs no frame of the display layer runs (the
\* frame size and the settings stay as they are)
C22_UploadAfterLastWrite ==
  /\ [](/\ Len(uploads) <= 1
        /\ pc \in {"render_loop", "trapped"} => uploads = <<>>
        /\ \A n \in 1..Len(uploads) :
             /\ uploads[n].written = Len(uploads[n].data)
             /\ \A k \in 1..Len(uploads[n].data) :
                  uploads[n].data[k] # Uninitialized)
  /\ [][(pc = "render_loop" /\ pc' # "render_loop") =>
          /\ Len(uploads') = 1
          /\ uploads'[1].written = width_ * height_
          /\ uploads'[1].written = Len(writes)
          /\ uploads'[1].data = image_data_]_vars
  /\ [][(pc = "render" \/ pc = "render_loop") =>
          (width_' = width_ /\ height_' = height_ /\ gamma_' = gamma_
           /\ samples_per_pixel_' = samples_per_pixel_)]_vars

\* a Render call of a 2 x 2 frame returned, its one upload made after the
\* fourth pixel
C22_Witness ==
  /\ pc = "after_test"
  /\ width_ = 2
  /\ height_ = 2
  /\ Len(uploads) = 1
  /\ uploads[1].written = 4
  /\ Len(writes) = 4

---------------------------------------------------------------------------
(* Properties of the 4-channel GetColor, checked under SpecColor4 *)

\* trunc(clamp(a, 0, 0.999) * 256) for the alpha a, in whole numbers
ClaimedAlpha(a) ==
  IF a <= 0 THEN 0 ELSE IF a >= 999 THEN 255 ELSE (a * 256) \div SCALE

---------------------------------------------------------------------------
(* Further properties of the intersection queries, checked under SpecHit *)

\* the sphere with the same center and the radius negated
Mirror(s) == [s EXCEPT !.radius_ = -s.radius_]

\* Sphere::Hit of s for the ray and the interval of the running query
QueryOf(s) == SphereHit(s, ray, t_min, closest_so_far, ZeroRecord)

\* the hits h of a sphere s and m of its mirror agree on t and point and
\* differ in the sign of the outward normal and in front_face
FlippedOnly(s, h, m) ==
  /\ h.hit = m.hit
  /\ h.hit =>
       /\ h.rec.t = m.rec.t
       /\ h.rec.point = m.rec.point
       /\ OutwardNormal(Mirror(s), m.rec.point)
            = VNeg(OutwardNormal(s, h.rec.point))
       /\ Dot(ray.direction, OutwardNormal(s, h.rec.point)) # 0 =>
            /\ h.rec.front_face # m.rec.front_face
            /\ h.rec.normal = m.rec.normal

\* C24: a sphere and the sphere with the same center and the negated radius
\* give, for every ray and interval, the same hit/miss answer, the same t and
\* the same point, while the outward normal is negated and front_face is
\* opposite whenever dot(ray.direction, outward_normal) is not 0
C24_NegativeRadiusFlipsNormal ==
  \A k \in 1..Len(objects_) :
    FlippedOnly(objects_[k], QueryOf(objects_[k]), QueryOf(Mirror(objects_[k])))

\* the list holds a sphere and then its mirror; both were queried and hit at
\* the same t, the first from its front face, the second from its back face
C24_Witness ==
  /\ Len(objects_) = 2
  /\ objects_[2].center_ = objects_[1].center_
  /\ objects_[2].radius_ = -objects_[1].radius_
  /\ objects_[1].radius_ > 0
  /\ idx = 3
  /\ hit_anything
  /\ record.material = objects_[2].material_
  /\ ~record.front_face
  /\ record.t = QueryOf(objects_[1]).rec.t
  /\ QueryOf(objects_[1]).rec.front_face

---------------------------------------------------------------------------
(* Further properties of the materials, checked under SpecScatter *)

\* reflect(normalize(incoming.direction), normal) + normalize(v) for the
\* running Scatter call and the random vector v
ComputedDirection(v) ==
  VAdd(Reflect(Normalize(ray.direction), record.normal), Normalize(v))

\* every component of the vector is below the epsilon
Degenerate(v) == v[1] = 0 /\ v[2] = 0 /\ v[3] = 0

\* C25: after Lambertian::Scatter, for the random vector that was drawn: if
\* the computed direction is near the zero vector the scattered direction is
\* the surface normal, otherwise it is the computed direction; with a normal
\* that is not near zero the scattered direction is never near zero
C25_LambertianFallback ==
  (pc = "scattered" /\ HitMaterial.kind = "Lambertian") =>
    /\ \E v \in RandomVec3Set :
         scattered.direction =
           IF Degenerate(ComputedDirection(v)) THEN record.normal
           ELSE ComputedDirection(v)
    /\ ~Degenerate(record.normal) => ~Degenerate(scattered.direction)

\* the random vector cancelled the reflection and the normal was used
C25_Witness ==
  /\ pc = "scattered"
  /\ HitMaterial.kind = "Lambertian"
  /\ \A v \in RandomVec3Set :
       Degenerate(ComputedDirection(v)) \/
         ComputedDirection(v) # record.normal
  /\ \E v \in RandomVec3Set : Degenerate(ComputedDirection(v))
  /\ scattered.direction = record.normal
  /\ ~Degenerate(record.normal)

---------------------------------------------------------------------------
(* Further properties of Render and the camera, checked under SpecRender *)

\* C26: the camera Render builds has a viewport whose width is its height
\* times the real quotient width_ / height_ of the frame: with right_ along x
\* and up_ along y, height_ * horizontal_.x = width_ * vertical_.y
C26_AspectIsRealQuotient ==
  pc = "render_loop" =>
    height_ * camera.horizontal_[1] = width_ * camera.vertical_[2]

\* viewport coordinates tried: the corners, the centre and a point between
UVSet == {0, 250, 500, SCALE}

\* the point of the focal plane that (u, v) stands for
Target(u, v) ==
  VAdd(VAdd(camera.lower_left_, VScale(u, camera.horizontal_)),
       VScale(v, camera.vertical_))

\* forward_ and focus_dist of the camera Render builds
Forward == Normalize(VSub(LookAt, origin_))

\* the ray r for (u, v) ends on the focal-plane target, and its origin is
\* moved from the camera origin within the right/up plane by at most the
\* lens radius (one unit of rounding allowed), not at all with aperture 0
DefocusKeepsTarget(r, u, v) ==
  /\ VAdd(r.origin, r.direction) = Target(u, v)
  /\ Dot(VSub(r.origin, camera.origin_), Forward) = 0
  /\ Length(VSub(r.origin, camera.origin_)) <= camera.lens_radius_ + 1
  /\ aperture_ = 0 => r.origin = camera.origin_

\* C27: for every (u, v) and every lens sample, the ray of Camera::GetRay
\* satisfies origin + direction = lower_left + u * horizontal + v * vertical,
\* its origin is offset within the right/up plane by at most lens_radius and
\* is the camera origin when the aperture is 0, and GetRay(0.5, 0.5) with
\* aperture 0 points along focus_distance * forward; checked for the camera
\* of each Render call when its loops start, and for the ray of the sample
\* Render takes next
C27_DefocusKeepsTarget ==
  (pc = "render_loop" /\ ~LoopsDone) =>
    /\ writes = <<>> =>
         \A u \in UVSet, v \in UVSet, g \in 0..(Len(RandomStream) - 1) :
           DefocusKeepsTarget(GetRay(camera, u, v, g), u, v)
    /\ DefocusKeepsTarget(SampleRay(generator), SampleU(RandomFloat(generator)),
                          SampleV(RandomFloat(generator + 1)))
    /\ aperture_ = 0 =>
         GetRay(camera, 500, 500, generator).direction
           = VScale(Length(VSub(origin_, LookAt)), Forward)

\* Render is about to take a sample through a lens of radius 0.05 whose
\* origin is moved off the camera origin
C27_Witness ==
  /\ pc = "render_loop"
  /\ ~LoopsDone
  /\ aperture_ = 100
  /\ camera.lens_radius_ = 50
  /\ SampleRay(generator).origin # camera.origin_
  /\ VAdd(SampleRay(generator).origin, SampleRay(generator).direction)
       = Target(SampleU(RandomFloat(generator)),
                SampleV(RandomFloat(generator + 1)))


\* the attenuations of the frames still open, outermost call first
RECURSIVE PathAttenuations(_)
PathAttenuations(st) ==
  IF st = <<>> THEN <<>>
  ELSE Append(PathAttenuations(Tail(st)), Head(st).attenuation)

\* the loop's product of a path of attenuations, taken left to right from
\* (1, 1, 1)
RECURSIVE ProductFrom(_, _)
ProductFrom(acc, as) ==
  IF as = <<>> THEN acc ELSE ProductFrom(VMul(acc, Head(as)), Tail(as))

\* the innermost call has just returned its colour and no frame has been
\* unwound yet (a frame unwound sets scatter_ok again)
TerminalReturned == pc = "ret" /\ ~scatter_ok

\* the innermost call ended black: out of budget before any Hit, or after a
\* Hit that hit (out of budget in the next call, or absorbed)
EndedBlack == hits = 0 \/ hit_anything

---------------------------------------------------------------------------
(* The order of the scan of HittableList::Hit, checked under SpecHit *)

\* the children that hit, alone, at the smallest t of all
NearestHits ==
  {k \in AloneHits : \A j \in AloneHits : Alone(k).rec.t <= Alone(j).rec.t}

\* the last of them in insertion order
LastNearest == CHOOSE k \in NearestHits : \A j \in NearestHits : j <= k

\* the child the next iteration queries is accepted: it hits and its t is
\* not beyond the bound
Accepted == Alone(idx).hit /\ Alone(idx).rec.t <= closest_so_far

\* what the scan holds in every state
ScanState ==
  /\ idx = 1 => closest_so_far = t_max
  /\ ~hit_anything => record = ZeroRecord /\ closest_so_far = t_max
  /\ hit_anything => closest_so_far = record.t /\ closest_so_far <= t_max
  /\ (pc = "hit_done" /\ hit_anything) => record = Alone(LastNearest).rec

\* what one iteration of the scan does
ScanStep ==
  idx' = idx + 1 =>
    (/\ closest_so_far' <= closest_so_far
     /\ IF Accepted
        THEN /\ hit_anything'
             /\ closest_so_far' = Alone(idx).rec.t
             /\ record' = Alone(idx).rec
        ELSE UNCHANGED <<hit_anything, closest_so_far, record>>)

\* C29: HittableList::Hit scans the children in insertion order with a bound
\* closest_so_far that starts at t_max, never increases and is set to the t
\* of each accepted hit; a child is accepted when its t <= closest_so_far, so
\* of several children that hit at the same nearest t the record returned is
\* that of the last in insertion order; the caller's record is written only
\* when some child hits.
C29_LastOfEqualNearest == [](ScanState) /\ [][ScanStep]_vars

\* two children with different materials hit at exactly the same t, and the
\* record returned is the second one's
C29_Witness ==
  /\ pc = "hit_done"
  /\ Len(objects_) = 2
  /\ NearestHits = {1, 2}
  /\ objects_[1].material_ # objects_[2].material_
  /\ Alone(1).rec # Alone(2).rec
  /\ record = Alone(2).rec


---------------------------------------------------------------------------
(* Properties of the frame loop, checked under SpecFrame *)

\* the frame loop is running
FrameLoopRunning == pc = "frame"

\* a DrawFrame call returned early: it neither completed nor threw
ReturnedEarly ==
  /\ draws' = draws + 1
  /\ completed' = completed
  /\ pc' = "frame"

\* every fence is signaled or has submitted work that will signal it, so
\* no wait on it blocks for ever
FencesWillSignal == \A k \in FrameSlots : in_flight_fences_[k] \/ submitted[k]

\* C30: the frame loop cannot deadlock on its in-flight fence.  While the
\* loop runs, every fence is signaled or has work submitted that signals it;
\* a step that leaves a fence unsignaled has submitted that work (or threw
\* out of the loop); a DrawFrame that returns early on an out-of-date swap
\* chain recreates the swap chain, keeps current_frame_ and leaves the
\* current fence signaled; every completed frame advances current_frame_ by
\* 1 modulo MAX_FRAMES_IN_FLIGHT, and current_frame_ stays in
\* [0, MAX_FRAMES_IN_FLIGHT).
C30_NoFenceDeadlock ==
  /\ [](/\ current_frame_ \in 0..(MAX_FRAMES_IN_FLIGHT - 1)
        /\ FrameLoopRunning =>
             /\ FencesWillSignal
             /\ current_frame_ = completed % MAX_FRAMES_IN_FLIGHT)
  /\ [][\A k \in FrameSlots :
          (in_flight_fences_[k] /\ ~in_flight_fences_'[k]) =>
            (submitted'[k] \/ pc' = "thrown")]_vars
  /\ [][ReturnedEarly =>
          (/\ in_flight_fences_'[CurrentSlot]
           /\ current_frame_' = current_frame_
           /\ swap_chains' = swap_chains + 1)]_vars
  /\ [][completed' # completed =>
          (/\ completed' = completed + 1
           /\ current_frame_' = NextFrame(current_frame_)
           /\ current_frame_' # current_frame_)]_vars

\* a DrawFrame returned early after frames were completed, and the loop is
\* about to wait on the fence of the same frame again, which is signaled
C30_Witness ==
  /\ FrameLoopRunning
  /\ completed = 3
  /\ draws = 5
  /\ swap_chains = 2
  /\ ~framebuffer_resized_
  /\ current_frame_ = 1
  /\ in_flight_fences_[CurrentSlot]

====
